---- MODULE Spec2Model ----
(***************************************************************************)
(* Device-telemetry pipeline of guirongLan/Observability-Monitoring.        *)
(*                                                                         *)
(* Part 1 (SpecLog): the client's per-device bounded log buffer,           *)
(*   LogSender.AddLog / LogSender.SendBatch / LogSender.Send, with the     *)
(*   per-device cacheMutex modelled explicitly.                            *)
(* Part 2 (SpecCache): the server's globalMetricCache guarded by cacheMu,  *)
(*   with concurrent ingestion handlers (updateMetricCache) and the        *)
(*   export callback registered by registerObservers.                      *)
(***************************************************************************)
EXTENDS Integers, Sequences, FiniteSets, TLC

(***************************************************************************)
(* Program constants and model bounds                                      *)
(***************************************************************************)

\* AddLog keeps the last 200 entries (part_001:142-143).
LogCacheCap == 200

\* Number of keys of the client's eventDefinitions (part_001:23-56).
CatalogSize == 27

\* AddLog calls explored on the device (enough to overflow the cache).
MaxAppend == 203

\* SendBatch calls explored on the device.
MaxDrains == 2

\* SendBatch calls explored where the appends since a drain are counted.
MaxDrainsCap == 1

\* /batchMetric requests explored on the server.
MaxRequests == 3

\* Runs of the export callback explored.
MaxRuns == 2

\* Highest temperature explored (the lowest is -10).
MaxTemp == 110

\* /batchLog requests explored on the server.
MaxBatchRequests == 1

\* Longest log batch explored.
MaxBatchLen == 2

\* Minutes of the metric generator's clock explored.
MaxMinutes == 8

\* Ticks explored on the tickers of the two periodic loops together.
MaxTicks == 2

\* Timer firings explored on the event generators together.
MaxEvents == 1

\* The batchSize arguments explored.
BatchSizes == {1, 2}

\* The goroutine of startRandomEventGenerator that calls addEvent/AddLog.
Gen == "gen"

\* Callers of SendBatch on the same device.
Drainers == {"s1", "s2"}

\* The goroutine of runLogSenders.
LoopThread == "s1"

LogThreads == {Gen} \cup Drainers

VARIABLES
    \* ---- LogSender state (part_001:62-69)
    logCache,      \* s.logCache
    cacheMutex,    \* s.cacheMutex: "free" or the thread holding it
    \* ---- control state of the goroutines using the LogSender
    pc,            \* thread -> position in AddLog / SendBatch / Send
    batchSize,     \* drainer -> batchSize argument of its SendBatch call
    entries,       \* drainer -> local variable entries of SendBatch
    \* ---- history of the run (observation only)
    appended,      \* number of AddLog appends performed so far
    sinceDrain,    \* appends performed since the last draining SendBatch
    evicted,       \* entries discarded by AddLog's trim, in order
    handed,        \* batches handed to Send, in drain order
    drains,        \* number of SendBatch calls started
    posts,         \* number of network submissions (client.Post) performed
    ret            \* value the last SendBatch call to return returned

VARIABLES
    \* ---- server state (coap-local/server/handlelogs.go:197-201)
    globalMetricCache,  \* map[string]Metrics
    cacheMu,            \* sync.RWMutex: [writer, readers]
    \* ---- control state of the request workers running handleCoapMetrics
    hpc,           \* worker -> position in the handler
    hm,            \* worker -> the decoded Metrics m of its request
    hresp,         \* worker -> response code set for its last request
    requests,      \* number of /batchMetric requests received so far
    records,       \* log records emitted by slog.LogAttrs, in order
    \* ---- control state of the export callback (metric.go:72-91)
    cpc,           \* position of the callback
    cbVisited,     \* keys the running callback has iterated over
    cbObs,         \* observations reported by the current / last run
    cbResult,      \* value returned by the last finished run
    cbRuns,        \* number of callback runs started
    \* ---- history of the run (observation only)
    lastPut,       \* device id -> sample of its last completed put
    putCount,      \* device id -> number of completed puts
    cbStart,       \* globalMetricCache when the current / last run began
    cbPuts,        \* lastPut when the current / last run began
    cbEmptyRuns,   \* number of finished runs that reported nothing
    hdone          \* worker -> what its current / last request has done:
                   \*   the puts and log records so far

VARIABLES
    \* ---- the server binary and its /batchLog handler (handlelogs.go:86-140)
    transport,     \* "coap" (coap-local/server) or "http" (http-google/server)
    bpc,           \* position of the worker running the batch-log handler
    batch,         \* its decoded IncomingLogBatch
    bi,            \* index of the entry its loop handles next
    bOut,          \* log records the request it serves has emitted, in order
    bSkipped,      \* entries the request it serves has skipped with a warning
    bresp,         \* response code set for its last request
    bRequests      \* number of /batchLog requests received so far

VARIABLES
    \* ---- one evaluation of the classification functions of the server
    temp,          \* argument of tempToSeverityString
    sevOut,        \* <<>> or <<its result>>
    sevIn,         \* argument of mapSeverityToLevel
    levelOut,      \* <<>> or <<its result>>
    msgOut,        \* <<>> or <<the result of tempToMessage for temp>>
    shownOut       \* <<>> or <<the severity replacer writes for levelOut>>

VARIABLES
    \* ---- one MetricSender of the client (part_002:36-48, part_006:56-67)
    now,                  \* the monotonic clock, in minutes
    config,               \* s.Config (part_006:57)
    anomalyStartTime,     \* s.anomalyStartTime
    anomalyDuration,      \* s.anomalyDuration
    anomalyHoldDuration,  \* s.anomalyHoldDuration
    anomalyActive,        \* s.anomalyActive
    baseTemp,             \* s.baseTemp (part_002:47)
    \* ---- control state of the goroutine running SendMetric
    gpc,           \* its position in SendMetric
    generated,     \* <<>> or <<the Metrics GenerateMetrics returned last>>
    \* ---- history of the run (observation only)
    sampleElapsed, \* elapsed of the last GenerateMetrics call that found the
                   \*   anomaly active on entry, -1 if it did not
    triggerDraw,   \* <<>> or <<the draw z of maybeTriggerAnomaly>> in the
                   \*   SendMetric call in progress
    drawn,         \* the raw draws of the last GenerateMetrics call
    callTemp,      \* GenerateMetrics in progress: <<>> or <<temp>>
    callRead       \* the values the call in progress has read off the
                   \*   clock and the anomaly fields and not yet used

VARIABLES
    \* ---- the client's periodic loops (part_001:170-187, part_002:180-196)
    cancelled,     \* whether ctx has been cancelled (ctx.Done() is closed)
    logTick,       \* whether a tick is pending on runLogSenders' ticker.C
    metricTick,    \* whether a tick is pending on runMetricSenders' ticker.C
    ticksFired,    \* number of ticks the two tickers have delivered
    logLoop,       \* runLogSenders: [pc, i], i the index into senders
    metricLoop,    \* runMetricSenders: [pc, i]
    metricRunning, \* device -> SendMetric goroutines started and not returned
    metricGenerating, \* device -> those of them that have not yet returned
                   \*   from GenerateMetrics
    \* ---- the event generators and main (randlogeventgenerator.go)
    genLoop,       \* device -> position of its event generator goroutine
    genTimer,      \* device -> whether its time.After timer has fired
    eventsFired,   \* number of timer firings of the event generators
    buffered,      \* device -> number of entries in its LogSender's logCache
    exited         \* whether main has returned (the process has exited)

VARIABLES
    \* ---- the process-wide random source of the normal draws (gonum's
    \*      distuv.Normal with no Src: part_002:109-113,124-129)
    seed,          \* the seed of the source
    rngPos,        \* the position of the source in its stream
    otherDraws,    \* history: the number of values the other MetricSenders
                   \*   have taken off the source
    callStamp,     \* GenerateMetrics in progress: <<>> or <<its time.Now()>>
    callDraws      \* GenerateMetrics in progress: the draws taken so far for
                   \*   the fields of its Metrics literal

VARIABLES
    \* ---- the wait of one event generator
    \*      (randlogeventgenerator.go:29-43)
    evConfig,      \* config: the range [Min |-> .., Max |-> ..], in seconds
    evpc,          \* position of the goroutine
    evWait,        \* <<>> or <<randomInterval of the current round>>
    evRounds       \* number of events the generator has added

VARIABLES
    \* ---- a second SendMetric call on the same MetricSender
    \*      (part_002:191-193 starts one per tick and waits for none)
    otherPc,       \* position of that call
    otherRead,     \* the values that call has read and not yet used
    raceCalls      \* number of SendMetric calls started on the sender

logVars == <<logCache, cacheMutex, pc, batchSize, entries, appended,
             sinceDrain, evicted, handed, drains, posts, ret>>

cacheVars == <<globalMetricCache, cacheMu, hpc, hm, hresp, requests, records,
               cpc, cbVisited, cbObs, cbResult, cbRuns, lastPut, putCount,
               cbStart, cbPuts, cbEmptyRuns, hdone>>

serverVars == <<transport, bpc, batch, bi, bOut, bSkipped, bresp, bRequests>>

calcVars == <<temp, sevOut, sevIn, levelOut, msgOut, shownOut>>

genVars == <<now, config, anomalyStartTime, anomalyDuration,
             anomalyHoldDuration, anomalyActive, baseTemp, gpc, generated,
             sampleElapsed, triggerDraw, drawn, callTemp, callRead>>

loopVars == <<cancelled, logTick, metricTick, ticksFired, logLoop, metricLoop,
              metricRunning, metricGenerating, genLoop, genTimer, eventsFired,
              buffered, exited>>

rngVars == <<seed, rngPos, otherDraws, callStamp, callDraws>>

waitVars == <<evConfig, evpc, evWait, evRounds>>

raceVars == <<otherPc, otherRead, raceCalls>>

\* What the actions of the log buffer, of the metric cache, of the batch-log
\* handler, of the function evaluations, of the metric generator and of the
\* periodic loops leave alone.
outsideLog ==
    <<cacheVars, serverVars, calcVars, genVars, loopVars, rngVars, waitVars,
      raceVars>>
outsideCache ==
    <<logVars, serverVars, calcVars, genVars, loopVars, rngVars, waitVars,
      raceVars>>
outsideBatch ==
    <<logVars, cacheVars, calcVars, genVars, loopVars, rngVars, waitVars,
      raceVars>>
outsideCalc ==
    <<logVars, cacheVars, serverVars, genVars, loopVars, rngVars, waitVars,
      raceVars>>
outsideLoops ==
    <<logVars, cacheVars, serverVars, calcVars, genVars, rngVars, waitVars,
      raceVars>>
outsideCalls ==
    <<logVars, cacheVars, serverVars, calcVars, loopVars, waitVars>>
outsideWait ==
    <<logVars, cacheVars, serverVars, calcVars, genVars, loopVars, rngVars,
      raceVars>>
outsideRace ==
    <<logVars, cacheVars, serverVars, calcVars, loopVars, rngVars, waitVars>>

vars == <<logVars, cacheVars, serverVars, calcVars, genVars, loopVars,
          rngVars, waitVars, raceVars>>

(***************************************************************************)
(* Helpers                                                                 *)
(***************************************************************************)

Min(a, b) == IF a < b THEN a ELSE b

\* Go slice expression s[from:] (0-based from), as a sequence.
SliceFrom(s, from) == SubSeq(s, from + 1, Len(s))

\* Go slice expression s[:to] (0-based, exclusive), as a sequence.
SliceTo(s, to) == SubSeq(s, 1, to)

\* The n-th entry appended on the device: LogEntryCompact{int64(id), ts}
\* (part_001:130).  The timestamp is the logical clock of the run and the
\* id walks through the keys of the catalog.
EntryOf(n) == <<((n - 1) % CatalogSize) + 1, n>>

\* All entries appended so far, in append order.
AppendedSeq == [i \in 1..appended |-> EntryOf(i)]

(***************************************************************************)
(* LogSender.AddLog (part_001:135-145)                                     *)
(***************************************************************************)

\* Variant of TrimCache that keeps the oldest 200 entries, s.logCache[:200].
TrimCacheOldest(c) ==
    IF Len(c) > LogCacheCap THEN SliceTo(c, LogCacheCap) ELSE c

\* part_001:142-144: keep the last 200 entries.
TrimCache(c) ==
    IF Len(c) > LogCacheCap THEN SliceFrom(c, Len(c) - LogCacheCap) ELSE c

\* s.cacheMutex.Lock() (part_001:136)
AddLogLock ==
    /\ pc[Gen] = "idle"
    /\ appended < MaxAppend
    /\ cacheMutex = "free"
    /\ cacheMutex' = Gen
    /\ pc' = [pc EXCEPT ![Gen] = "al_locked"]
    /\ UNCHANGED <<logCache, batchSize, entries, appended,
                   evicted, handed, drains, posts, ret>>

\* s.logCache = append(s.logCache, entry) (part_001:139)
AddLogAppend ==
    /\ pc[Gen] = "al_locked"
    /\ logCache' = Append(logCache, EntryOf(appended + 1))
    /\ appended' = appended + 1
    /\ pc' = [pc EXCEPT ![Gen] = "al_appended"]
    /\ UNCHANGED <<cacheMutex, batchSize, entries, evicted, handed,
                   drains, posts, ret>>

\* if len > 200 { trim } ; deferred Unlock (part_001:137, 142-145)
AddLogTrim ==
    /\ pc[Gen] = "al_appended"
    /\ logCache' = TrimCache(logCache)
    /\ evicted' = evicted \o SliceTo(logCache, Len(logCache) - Len(logCache'))
    /\ cacheMutex' = "free"
    /\ pc' = [pc EXCEPT ![Gen] = "idle"]
    /\ UNCHANGED <<batchSize, entries, appended, handed, drains, posts, ret>>

(***************************************************************************)
(* LogSender.SendBatch (part_001:147-167) and LogSender.Send (86-119)      *)
(***************************************************************************)

\* Variant of BatchOf that copies the newest entries, s.logCache[len-b:].
BatchOfNewest(c, b) == IF Len(c) > b THEN SliceFrom(c, Len(c) - b) ELSE c

\* The batch SendBatch copies out of the cache (part_001:155-162).
BatchOf(c, b) == IF Len(c) > b THEN SliceTo(c, b) ELSE c

\* Variant of RestOf that empties the cache whatever the batch size.
RestOfDropAll(c, b) == <<>>

\* Variant of RestOf that leaves the cache as it was (the batch is copied
\* but not cut off).
RestOfKeep(c, b) == c

\* Variant of RestOf that cuts one entry too many, s.logCache[batchSize+1:].
RestOfSkip(c, b) == IF Len(c) > b THEN SliceFrom(c, b + 1) ELSE <<>>

\* What SendBatch leaves in the cache (part_001:158, 161).
RestOf(c, b) == IF Len(c) > b THEN SliceFrom(c, b) ELSE <<>>

\* Variant of MutexAtSend where Unlock is deferred to the return of SendBatch.
MutexHeldAtSend(t) == t

\* Holder of the mutex when SendBatch calls Send (part_001:163-166).
MutexAtSend(t) == "free"

\* s.cacheMutex.Lock() (part_001:148)
SendBatchLock(t, b) ==
    /\ pc[t] = "idle"
    /\ drains < MaxDrains
    /\ cacheMutex = "free"
    /\ cacheMutex' = t
    /\ batchSize' = [batchSize EXCEPT ![t] = b]
    /\ drains' = drains + 1
    /\ pc' = [pc EXCEPT ![t] = "sb_locked"]
    /\ UNCHANGED <<logCache, entries, appended, evicted, handed, posts, ret>>

\* len(s.logCache) == 0: Unlock and return nil (part_001:149-152)
SendBatchEmpty(t) ==
    /\ pc[t] = "sb_locked"
    /\ Len(logCache) = 0
    /\ cacheMutex' = "free"
    /\ batchSize' = [batchSize EXCEPT ![t] = 0]
    /\ ret' = "nil"
    /\ pc' = [pc EXCEPT ![t] = "idle"]
    /\ UNCHANGED <<logCache, entries, appended, evicted, handed, drains, posts>>

\* Copy the batch out, cut the cache, Unlock, call Send (part_001:154-166)
SendBatchTake(t) ==
    /\ pc[t] = "sb_locked"
    /\ Len(logCache) # 0
    /\ entries' = [entries EXCEPT ![t] = BatchOf(logCache, batchSize[t])]
    /\ logCache' = RestOf(logCache, batchSize[t])
    /\ cacheMutex' = MutexAtSend(t)
    /\ handed' = Append(handed, entries'[t])
    /\ pc' = [pc EXCEPT ![t] = "send"]
    /\ UNCHANGED <<batchSize, appended, evicted, drains, posts, ret>>

\* Return value of Send: nil for an empty batch (part_001:87-89), the error
\* of client.Post when it fails (105-110), nil otherwise, whatever the
\* response code (113-118).
SendResult(sent, ok) == IF Len(sent) = 0 \/ ok THEN "nil" ELSE "err"

\* Variant of CacheAfterSend that puts the batch of a failed submission back
\* at the head of the cache.
CacheRequeueOnFailure(c, sent, ok) == IF ok THEN c ELSE sent \o c

\* The cache when Send and SendBatch return (part_001:105-110, 163-166):
\* neither touches it, whether the submission failed or not.
CacheAfterSend(c, sent, ok) == c

\* Send (part_001:86-119): nothing is posted for an empty batch; otherwise
\* one client.Post, which succeeds or fails; SendBatch returns its result.
Send(t, ok) ==
    /\ pc[t] = "send"
    /\ posts' = IF Len(entries[t]) = 0 THEN posts ELSE posts + 1
    /\ ret' = SendResult(entries[t], ok)
    /\ logCache' = CacheAfterSend(logCache, entries[t], ok)
    /\ entries' = [entries EXCEPT ![t] = <<>>]
    /\ batchSize' = [batchSize EXCEPT ![t] = 0]
    /\ pc' = [pc EXCEPT ![t] = "idle"]
    /\ UNCHANGED <<cacheMutex, appended, evicted, handed, drains>>

(***************************************************************************)
(* Server: Metrics, globalMetricCache and cacheMu                          *)
(* (coap-local/server/handlelogs.go:197-291; the HTTP server's             *)
(* handlelogsmetricsofdiveces.go:14-88 has the same cache and lock)        *)
(***************************************************************************)

\* Request workers of the transport runtime, one per in-flight submission.
Workers == {"h1", "h2"}

\* The goroutine of the metrics SDK that runs the registered callback.
Callback == "cb"

DeviceIds == {"d1", "d2"}

\* Fields of the Metrics struct (handlelogs.go:203-213).
MetricFields == {"DeviceID", "Timestamp", "CPUPercent", "MemUsedMB", "TempC",
                 "DiskUsagePercent", "DiskReadMBps", "DiskWriteMBps"}

\* The submissions explored for a device: sample 1 is hot (temp_c = 90),
\* sample 2 is cool (temp_c = 50); all numeric fields differ.
SampleIds == {1, 2}

Sample(d, p) ==
    [DeviceID |-> d, Timestamp |-> p,
     CPUPercent |-> 10 + p, MemUsedMB |-> 1000 + p,
     TempC |-> IF p = 1 THEN 90 ELSE 50,
     DiskUsagePercent |-> 40 + p, DiskReadMBps |-> 20 + p,
     DiskWriteMBps |-> 30 + p]

Samples == {Sample(d, p) : d \in DeviceIds, p \in SampleIds}

\* The zero value of Metrics (var m Metrics, handlelogs.go:252).
ZeroMetrics ==
    [DeviceID |-> "", Timestamp |-> 0, CPUPercent |-> 0, MemUsedMB |-> 0,
     TempC |-> 0, DiskUsagePercent |-> 0, DiskReadMBps |-> 0,
     DiskWriteMBps |-> 0]

\* sync.RWMutex: Lock waits for the writer and all readers to be gone,
\* RLock only for the writer.
CanLockEvenIfHeld(mu) == TRUE

CanLock(mu) == mu.writer = "none" /\ mu.readers = {}

CanRLock(mu) == mu.writer = "none"

\* The struct assignment globalMetricCache[m.DeviceID] = m (handlelogs.go:290)
\* copies the fields one after the other; PutHead is the map after the
\* first fields are stored, PutTail the map after the whole assignment.
HeadFields == {"DeviceID", "Timestamp", "CPUPercent", "MemUsedMB"}

PutHead(c, m) ==
    LET k == m.DeviceID
        old == IF k \in DOMAIN c THEN c[k] ELSE ZeroMetrics
        half == [f \in MetricFields |-> IF f \in HeadFields THEN m[f] ELSE old[f]]
    IN  [x \in DOMAIN c \cup {k} |-> IF x = k THEN half ELSE c[x]]

\* Variant of PutTail that merges: it fills only the fields still zero.
PutTailMerge(c, m) ==
    LET k == m.DeviceID
        old == IF k \in DOMAIN c THEN c[k] ELSE ZeroMetrics
        merged == [f \in MetricFields |->
                      IF old[f] = ZeroMetrics[f] THEN m[f] ELSE old[f]]
    IN  [x \in DOMAIN c \cup {k} |-> IF x = k THEN merged ELSE c[x]]

\* Variant of PutTail that replaces the map by one holding only the sample.
PutTailReset(c, m) == [x \in {m.DeviceID} |-> m]

\* Variant of PutTail that stores every sample under the empty key.
PutTailUnderEmptyKey(c, m) ==
    LET k == ""
    IN  [x \in DOMAIN c \cup {k} |-> IF x = k THEN m ELSE c[x]]

PutTail(c, m) ==
    LET k == m.DeviceID
    IN  [x \in DOMAIN c \cup {k} |-> IF x = k THEN m ELSE c[x]]

\* Variant of tempToSeverityString whose last band excludes 100.
tempToSeverityStringBelow100(t) ==
    IF t < 75 THEN "INFO"
    ELSE IF t < 85 THEN "WARNING"
    ELSE IF t < 95 THEN "CRITICAL"
    ELSE IF t < 100 THEN "EMERGENCY"
    ELSE "INFO"

\* tempToSeverityString (handlelogs.go:215-229)
tempToSeverityString(t) ==
    IF t < 75 THEN "INFO"
    ELSE IF t < 85 THEN "WARNING"
    ELSE IF t < 95 THEN "CRITICAL"
    ELSE IF t <= 100 THEN "EMERGENCY"
    ELSE "INFO"

\* Variant of tempToMessage whose first band ends at 80.
tempToMessageFineTo80(t) ==
    IF t < 80 THEN "Temperature is fine"
    ELSE IF t < 85 THEN "Temperature rising - monitor closely"
    ELSE IF t < 95 THEN "Critical temperature - action needed"
    ELSE IF t <= 100 THEN "Emergency - device may fail"
    ELSE "Temperature is fine"

\* tempToMessage (handlelogs.go:231-245); the dash of the source's messages
\* is written "-".
tempToMessage(t) ==
    IF t < 75 THEN "Temperature is fine"
    ELSE IF t < 85 THEN "Temperature rising - monitor closely"
    ELSE IF t < 95 THEN "Critical temperature - action needed"
    ELSE IF t <= 100 THEN "Emergency - device may fail"
    ELSE "Temperature is fine"

\* The levels of log.go:12-21.
LevelDebug == -4
LevelInfo == 0
LevelNotice == 1
LevelWarning == 4
LevelError == 8
LevelCritical == 10
LevelAlert == 12
LevelEmergency == 14

\* The upper-case form of one character.
UpperChar(c) ==
    CASE c = "a" -> "A" [] c = "b" -> "B" [] c = "c" -> "C" [] c = "d" -> "D"
      [] c = "e" -> "E" [] c = "f" -> "F" [] c = "g" -> "G" [] c = "h" -> "H"
      [] c = "i" -> "I" [] c = "j" -> "J" [] c = "k" -> "K" [] c = "l" -> "L"
      [] c = "m" -> "M" [] c = "n" -> "N" [] c = "o" -> "O" [] c = "p" -> "P"
      [] c = "q" -> "Q" [] c = "r" -> "R" [] c = "s" -> "S" [] c = "t" -> "T"
      [] c = "u" -> "U" [] c = "v" -> "V" [] c = "w" -> "W" [] c = "x" -> "X"
      [] c = "y" -> "Y" [] c = "z" -> "Z" [] OTHER -> c

\* The characters of the explored strings that have lower-case letters; a
\* string without any is left whole.
Spelling(str) ==
    CASE str = "debug" -> <<"d", "e", "b", "u", "g">>
      [] str = "Debug" -> <<"D", "e", "b", "u", "g">>
      [] str = "info" -> <<"i", "n", "f", "o">>
      [] str = "Info" -> <<"I", "n", "f", "o">>
      [] str = "iNFO" -> <<"i", "N", "F", "O">>
      [] str = "notice" -> <<"n", "o", "t", "i", "c", "e">>
      [] str = "Notice" -> <<"N", "o", "t", "i", "c", "e">>
      [] str = "warning" -> <<"w", "a", "r", "n", "i", "n", "g">>
      [] str = "Warning" -> <<"W", "a", "r", "n", "i", "n", "g">>
      [] str = "warn" -> <<"w", "a", "r", "n">>
      [] str = "error" -> <<"e", "r", "r", "o", "r">>
      [] str = "Error" -> <<"E", "r", "r", "o", "r">>
      [] str = "critical" -> <<"c", "r", "i", "t", "i", "c", "a", "l">>
      [] str = "Critical" -> <<"C", "r", "i", "t", "i", "c", "a", "l">>
      [] str = "alert" -> <<"a", "l", "e", "r", "t">>
      [] str = "Alert" -> <<"A", "l", "e", "r", "t">>
      [] str = "aLeRt" -> <<"a", "L", "e", "R", "t">>
      [] str = "emergency" -> <<"e", "m", "e", "r", "g", "e", "n", "c", "y">>
      [] str = "Emergency" -> <<"E", "m", "e", "r", "g", "e", "n", "c", "y">>
      [] str = "fatal" -> <<"f", "a", "t", "a", "l">>
      [] str = "info " -> <<"i", "n", "f", "o", " ">>
      [] OTHER -> <<str>>

RECURSIVE UpperAll(_)
UpperAll(cs) ==
    IF cs = <<>> THEN "" ELSE UpperChar(Head(cs)) \o UpperAll(Tail(cs))

\* strings.ToUpper (handlelogs.go:64).
ToUpper(sev) == UpperAll(Spelling(sev))

\* Variant of mapSeverityToLevel that compares the string as it is.
mapSeverityToLevelExact(sev) ==
    CASE sev = "DEBUG" -> LevelDebug
      [] sev = "INFO" -> LevelInfo
      [] sev = "NOTICE" -> LevelNotice
      [] sev = "WARNING" -> LevelWarning
      [] sev = "ERROR" -> LevelError
      [] sev = "CRITICAL" -> LevelCritical
      [] sev = "ALERT" -> LevelAlert
      [] sev = "EMERGENCY" -> LevelEmergency
      [] OTHER -> LevelInfo

\* mapSeverityToLevel (handlelogs.go:62-84)
mapSeverityToLevel(sev) ==
    CASE ToUpper(sev) = "DEBUG" -> LevelDebug
      [] ToUpper(sev) = "INFO" -> LevelInfo
      [] ToUpper(sev) = "NOTICE" -> LevelNotice
      [] ToUpper(sev) = "WARNING" -> LevelWarning
      [] ToUpper(sev) = "ERROR" -> LevelError
      [] ToUpper(sev) = "CRITICAL" -> LevelCritical
      [] ToUpper(sev) = "ALERT" -> LevelAlert
      [] ToUpper(sev) = "EMERGENCY" -> LevelEmergency
      [] OTHER -> LevelInfo

\* Variant of replacer without the case of LevelNotice.
replacerWithoutNotice(level) ==
    CASE level = LevelDebug -> "DEBUG"
      [] level = LevelInfo -> "INFO"
      [] level = LevelWarning -> "WARNING"
      [] level = LevelError -> "ERROR"
      [] level = LevelCritical -> "CRITICAL"
      [] level = LevelAlert -> "ALERT"
      [] level = LevelEmergency -> "EMERGENCY"
      [] OTHER -> "DEFAULT"

\* replacer, the value it gives the level attribute (log.go:57-80)
replacer(level) ==
    CASE level = LevelDebug -> "DEBUG"
      [] level = LevelInfo -> "INFO"
      [] level = LevelNotice -> "NOTICE"
      [] level = LevelWarning -> "WARNING"
      [] level = LevelError -> "ERROR"
      [] level = LevelCritical -> "CRITICAL"
      [] level = LevelAlert -> "ALERT"
      [] level = LevelEmergency -> "EMERGENCY"
      [] OTHER -> "DEFAULT"

\* Variant of MetricRecord that classifies the CPU load instead of the
\* temperature.
MetricRecordOfCPU(m) ==
    [level |-> mapSeverityToLevel(tempToSeverityString(m.CPUPercent)),
     msg |-> tempToMessage(m.CPUPercent),
     device_id |-> m.DeviceID,
     value |-> m.CPUPercent,
     type |-> "devicemetric"]

\* The record slog.LogAttrs emits for a sample (handlelogs.go:272-279).
MetricRecord(m) ==
    [level |-> mapSeverityToLevel(tempToSeverityString(m.TempC)),
     msg |-> tempToMessage(m.TempC),
     device_id |-> m.DeviceID,
     value |-> m.TempC,
     type |-> "devicemetric"]

(***************************************************************************)
(* handleCoapMetrics (handlelogs.go:247-284) and updateMetricCache         *)
(* (handlelogs.go:286-291)                                                 *)
(***************************************************************************)

Transports == {"coap", "http"}

\* The status set on a failed read or decode: codes.BadRequest
\* (coap handlelogs.go:94, 101, 258, 265), http.StatusBadRequest
\* (http handlelogs.go:91, handlelogsmetricsofdiveces.go:64).
BadRequestStatus(tr) == IF tr = "coap" THEN "4.00 BadRequest" ELSE "400 Bad Request"

\* The status a served /batchLog gets: codes.Created (coap handlelogs.go:139),
\* http.StatusOK (http handlelogs.go:129).
BatchLogStatus(tr) == IF tr = "coap" THEN "2.01 Created" ELSE "200 OK"

\* Variant of MetricStatus that answers like /batchLog.
MetricStatusAsBatchLog(tr) == IF tr = "coap" THEN "2.01 Created" ELSE "200 OK"

\* The status a served /batchMetric gets: codes.Changed (coap
\* handlelogs.go:283), http.StatusAccepted (handlelogsmetricsofdiveces.go:80).
MetricStatus(tr) == IF tr = "coap" THEN "2.04 Changed" ELSE "202 Accepted"

\* Variant of ReturnAfterBadRequest without the return statement: the
\* handler goes on with the zero value it failed to decode into.
FallThroughAfterBadRequest(next) == next

\* Where a handler is after it has set the bad-request status: it returns
\* (coap handlelogs.go:95, 102, 259, 266), whatever would have come next.
ReturnAfterBadRequest(next) == "idle"

\* A request that has neither put nor logged yet.
NothingDone == [puts |-> 0, logs |-> 0]

cacheFrameOfHandler ==
    <<cpc, cbVisited, cbObs, cbResult, cbRuns, cbStart, cbPuts, cbEmptyRuns>>

\* r.ReadBody() fails or cbor.Unmarshal fails: BadRequest, return
\* (handlelogs.go:254-266).
MetricsBadBody(h, why) ==
    /\ hpc[h] = "idle"
    /\ requests < MaxRequests
    /\ requests' = requests + 1
    /\ why = "read" => transport = "coap"
    /\ hresp' = [hresp EXCEPT ![h] = BadRequestStatus(transport)]
    /\ hm' = [hm EXCEPT ![h] = ZeroMetrics]
    /\ hpc' = [hpc EXCEPT ![h] = ReturnAfterBadRequest("put")]
    /\ UNCHANGED <<globalMetricCache, cacheMu, records, lastPut, putCount>>
    /\ hdone' = [hdone EXCEPT ![h] = NothingDone]
    /\ UNCHANGED cacheFrameOfHandler

\* The body decodes into m; the handler goes on to updateMetricCache(m)
\* (handlelogs.go:252-269).
MetricsDecoded(h, m) ==
    /\ hpc[h] = "idle"
    /\ requests < MaxRequests
    /\ requests' = requests + 1
    /\ hresp' = [hresp EXCEPT ![h] = "none"]
    /\ hm' = [hm EXCEPT ![h] = m]
    /\ hpc' = [hpc EXCEPT ![h] = "put"]
    /\ UNCHANGED <<globalMetricCache, cacheMu, records, lastPut, putCount>>
    /\ hdone' = [hdone EXCEPT ![h] = NothingDone]
    /\ UNCHANGED cacheFrameOfHandler

\* cacheMu.Lock() (handlelogs.go:288)
UpdateLock(h) ==
    /\ hpc[h] = "put"
    /\ CanLock(cacheMu)
    /\ cacheMu' = [cacheMu EXCEPT !.writer = h]
    /\ hpc' = [hpc EXCEPT ![h] = "locked"]
    /\ UNCHANGED <<globalMetricCache, hm, hresp, requests, records, lastPut,
                   putCount>>
    /\ UNCHANGED <<hdone, cacheFrameOfHandler>>

\* globalMetricCache[m.DeviceID] = m, first fields (handlelogs.go:290)
UpdateWriteHead(h) ==
    /\ hpc[h] = "locked"
    /\ globalMetricCache' = PutHead(globalMetricCache, hm[h])
    /\ hpc' = [hpc EXCEPT ![h] = "writing"]
    /\ UNCHANGED <<cacheMu, hm, hresp, requests, records, lastPut, putCount>>
    /\ UNCHANGED <<hdone, cacheFrameOfHandler>>

\* globalMetricCache[m.DeviceID] = m, completed; deferred cacheMu.Unlock()
\* (handlelogs.go:289-291)
UpdateWriteTail(h) ==
    /\ hpc[h] = "writing"
    /\ globalMetricCache' = PutTail(globalMetricCache, hm[h])
    /\ cacheMu' = [cacheMu EXCEPT !.writer =
                      IF cacheMu.writer = h THEN "none" ELSE cacheMu.writer]
    /\ lastPut' = [x \in DOMAIN lastPut \cup {hm[h].DeviceID} |->
                      IF x = hm[h].DeviceID THEN hm[h] ELSE lastPut[x]]
    /\ putCount' = [putCount EXCEPT ![hm[h].DeviceID] = @ + 1]
    /\ hpc' = [hpc EXCEPT ![h] = "log"]
    /\ UNCHANGED <<hm, hresp, requests, records>>
    /\ hdone' = [hdone EXCEPT ![h].puts = @ + 1]
    /\ UNCHANGED cacheFrameOfHandler

\* slog.LogAttrs(ctx, level, tempToMessage(m.TempC), ...) (handlelogs.go:272-279)
MetricsLog(h) ==
    /\ hpc[h] = "log"
    /\ records' = Append(records, MetricRecord(hm[h]))
    /\ hpc' = [hpc EXCEPT ![h] = "respond"]
    /\ UNCHANGED <<globalMetricCache, cacheMu, hm, hresp, requests, lastPut,
                   putCount>>
    /\ hdone' = [hdone EXCEPT ![h].logs = @ + 1]
    /\ UNCHANGED cacheFrameOfHandler

\* w.SetResponse(codes.Changed, ...) (handlelogs.go:282-283)
MetricsRespond(h) ==
    /\ hpc[h] = "respond"
    /\ hresp' = [hresp EXCEPT ![h] = MetricStatus(transport)]
    /\ hpc' = [hpc EXCEPT ![h] = "idle"]
    /\ UNCHANGED <<globalMetricCache, cacheMu, hm, requests, records, lastPut,
                   putCount>>
    /\ UNCHANGED <<hdone, cacheFrameOfHandler>>

(***************************************************************************)
(* The export callback of registerObservers (metric.go:70-96; the HTTP     *)
(* server's metricgraphics.go:96-128 adds the geo labels)                  *)
(***************************************************************************)

cacheFrameOfCallback ==
    <<hpc, hm, hresp, requests, records, lastPut, putCount, hdone>>

\* Variant of ObservationsOf that reports the CPU value on the temperature
\* gauge and the temperature on the CPU gauge.
ObservationsSwapped(m) ==
    << [gauge |-> "cpu_percent", value |-> m.TempC, device_id |-> m.DeviceID],
       [gauge |-> "temperature_celsius", value |-> m.CPUPercent, device_id |-> m.DeviceID],
       [gauge |-> "memory_used_mb", value |-> m.MemUsedMB, device_id |-> m.DeviceID],
       [gauge |-> "disk_usage_percent", value |-> m.DiskUsagePercent, device_id |-> m.DeviceID],
       [gauge |-> "disk_read_mbps", value |-> m.DiskReadMBps, device_id |-> m.DeviceID],
       [gauge |-> "disk_write_mbps", value |-> m.DiskWriteMBps, device_id |-> m.DeviceID] >>

\* The six ObserveFloat64 calls for one entry (metric.go:79-85); a gauge is
\* named by the last part of its instrument name (metric.go:26-61).
ObservationsOf(m) ==
    << [gauge |-> "cpu_percent", value |-> m.CPUPercent, device_id |-> m.DeviceID],
       [gauge |-> "temperature_celsius", value |-> m.TempC, device_id |-> m.DeviceID],
       [gauge |-> "memory_used_mb", value |-> m.MemUsedMB, device_id |-> m.DeviceID],
       [gauge |-> "disk_usage_percent", value |-> m.DiskUsagePercent, device_id |-> m.DeviceID],
       [gauge |-> "disk_read_mbps", value |-> m.DiskReadMBps, device_id |-> m.DeviceID],
       [gauge |-> "disk_write_mbps", value |-> m.DiskWriteMBps, device_id |-> m.DeviceID] >>

\* Variant of CacheAfterObserve that deletes the entry once it is reported.
CacheDropObserved(c, k) == [x \in DOMAIN c \ {k} |-> c[x]]

\* The map after the callback has reported entry k: the loop only reads
\* (metric.go:78-89).
CacheAfterObserve(c, k) == c

\* cacheMu.RLock() (metric.go:74)
CallbackRLock ==
    /\ cpc = "idle"
    /\ cbRuns < MaxRuns
    /\ CanRLock(cacheMu)
    /\ cacheMu' = [cacheMu EXCEPT !.readers = @ \cup {Callback}]
    /\ cpc' = "iter"
    /\ cbRuns' = cbRuns + 1
    /\ cbVisited' = {}
    /\ cbObs' = <<>>
    /\ cbResult' = "none"
    /\ cbStart' = globalMetricCache
    /\ cbPuts' = lastPut
    /\ UNCHANGED <<globalMetricCache, cbEmptyRuns>>
    /\ UNCHANGED cacheFrameOfCallback

\* One iteration of for _, m := range globalMetricCache (metric.go:78-89),
\* in the arbitrary order of a Go map.
CallbackObserve(k) ==
    /\ cpc = "iter"
    /\ k \in DOMAIN globalMetricCache \ cbVisited
    /\ cbObs' = cbObs \o ObservationsOf(globalMetricCache[k])
    /\ cbVisited' = cbVisited \cup {k}
    /\ globalMetricCache' = CacheAfterObserve(globalMetricCache, k)
    /\ UNCHANGED <<cacheMu, cpc, cbResult, cbRuns, cbStart, cbPuts, cbEmptyRuns>>
    /\ UNCHANGED cacheFrameOfCallback

\* End of the loop: return nil; deferred cacheMu.RUnlock() (metric.go:75, 90)
CallbackReturn ==
    /\ cpc = "iter"
    /\ DOMAIN globalMetricCache \subseteq cbVisited
    /\ cacheMu' = [cacheMu EXCEPT !.readers = @ \ {Callback}]
    /\ cbResult' = "nil"
    /\ cpc' = "idle"
    /\ cbEmptyRuns' = IF cbObs = <<>> THEN cbEmptyRuns + 1 ELSE cbEmptyRuns
    /\ UNCHANGED <<globalMetricCache, cbVisited, cbObs, cbRuns, cbStart, cbPuts>>
    /\ UNCHANGED cacheFrameOfCallback

\* The empty map: make(map[string]Metrics) (handlelogs.go:198).
EmptyCache == [x \in {} |-> ZeroMetrics]

InitCache ==
    /\ globalMetricCache = EmptyCache
    /\ cacheMu = [writer |-> "none", readers |-> {}]
    /\ hpc = [h \in Workers |-> "idle"]
    /\ hm = [h \in Workers |-> ZeroMetrics]
    /\ hresp = [h \in Workers |-> "none"]
    /\ requests = 0
    /\ records = <<>>
    /\ cpc = "idle"
    /\ cbVisited = {}
    /\ cbObs = <<>>
    /\ cbResult = "none"
    /\ cbRuns = 0
    /\ lastPut = EmptyCache
    /\ putCount = [d \in DeviceIds |-> 0]
    /\ cbStart = EmptyCache
    /\ cbPuts = EmptyCache
    /\ cbEmptyRuns = 0
    /\ hdone = [h \in Workers |-> NothingDone]

(***************************************************************************)
(* Server: the batch-log handler, handleCoapBatchLog                       *)
(* (coap-local/server/handlelogs.go:86-140) and handleBatchLog             *)
(* (http-google/server/handlelogs.go:85-130)                               *)
(***************************************************************************)

\* eventDefinitions of the servers (handlelogs.go:21-60 in both).
eventDefinitions ==
    [i \in 1..27 |->
       CASE i = 1 -> [Severity |-> "DEBUG", Message |-> "Dispositivo in fase di inizializzazione"]
         [] i = 2 -> [Severity |-> "DEBUG", Message |-> "Controllo stato rete"]
         [] i = 3 -> [Severity |-> "DEBUG", Message |-> "Avvio modulo sensore"]
         [] i = 4 -> [Severity |-> "DEBUG", Message |-> "Sincronizzazione orologio"]
         [] i = 5 -> [Severity |-> "INFO", Message |-> "Avvio completato"]
         [] i = 6 -> [Severity |-> "INFO", Message |-> "Temperatura normale"]
         [] i = 7 -> [Severity |-> "INFO", Message |-> "CPU sotto soglia"]
         [] i = 8 -> [Severity |-> "INFO", Message |-> "Heartbeat inviato"]
         [] i = 9 -> [Severity |-> "NOTICE", Message |-> "Cambio configurazione"]
         [] i = 10 -> [Severity |-> "NOTICE", Message |-> "Aggiornamento firmware disponibile"]
         [] i = 11 -> [Severity |-> "NOTICE", Message |-> "Sensore temporaneamente inattivo"]
         [] i = 12 -> [Severity |-> "NOTICE", Message |-> "Collegamento rete ristabilito"]
         [] i = 13 -> [Severity |-> "WARNING", Message |-> "Temperatura elevata"]
         [] i = 14 -> [Severity |-> "WARNING", Message |-> "Consumo CPU sopra la soglia"]
         [] i = 15 -> [Severity |-> "WARNING", Message |-> "Batteria in esaurimento"]
         [] i = 16 -> [Severity |-> "WARNING", Message |-> "Perdita pacchetti rilevata"]
         [] i = 17 -> [Severity |-> "ERROR", Message |-> "Impossibile connettersi al server"]
         [] i = 18 -> [Severity |-> "ERROR", Message |-> "Errore lettura sensore"]
         [] i = 19 -> [Severity |-> "ERROR", Message |-> "Timeout nella risposta del server"]
         [] i = 20 -> [Severity |-> "ERROR", Message |-> "Scrittura su memoria fallita"]
         [] i = 21 -> [Severity |-> "CRITICAL", Message |-> "Perdita connessione permanente"]
         [] i = 22 -> [Severity |-> "CRITICAL", Message |-> "Dati corrotti nella memoria"]
         [] i = 23 -> [Severity |-> "ALERT", Message |-> "Accesso non autorizzato rilevato"]
         [] i = 24 -> [Severity |-> "ALERT", Message |-> "Possibile attacco DoS in corso"]
         [] i = 25 -> [Severity |-> "EMERGENCY", Message |-> "Sistema in stato critico - riavvio necessario"]
         [] i = 26 -> [Severity |-> "EMERGENCY", Message |-> "Errore hardware irreversibile"]
         [] OTHER -> [Severity |-> "EMERGENCY", Message |-> "Guasto alimentazione principale"]]

\* The conversion uint8(x) of a signed integer: its low 8 bits
\* (handlelogs.go:118).
Uint8(x) == x % 256

\* Civil date of a day number counted from 1970-01-01 (time.Unix(..).UTC()).
CivilFromDays(days) ==
    LET z == days + 719468
        era == z \div 146097
        doe == z - era * 146097
        yoe == (doe - doe \div 1460 + doe \div 36524 - doe \div 146096) \div 365
        doy == doe - (365 * yoe + yoe \div 4 - yoe \div 100)
        mp == (5 * doy + 2) \div 153
        d == doy - (153 * mp + 2) \div 5 + 1
        m == IF mp < 10 THEN mp + 3 ELSE mp - 9
        y == yoe + era * 400 + (IF m <= 2 THEN 1 ELSE 0)
    IN  [year |-> y, month |-> m, day |-> d]

Pad2(n) == IF n < 10 THEN "0" \o ToString(n) ELSE ToString(n)

Pad4(n) ==
    IF n < 10 THEN "000" \o ToString(n)
    ELSE IF n < 100 THEN "00" \o ToString(n)
    ELSE IF n < 1000 THEN "0" \o ToString(n)
    ELSE ToString(n)

\* time.Unix(ts, 0).UTC().Format(time.RFC3339) (handlelogs.go:127-128), for
\* the years 0..9999.
FormatRFC3339(ts) ==
    LET days == ts \div 86400
        secs == ts % 86400
        c == CivilFromDays(days)
    IN  Pad4(c.year) \o "-" \o Pad2(c.month) \o "-" \o Pad2(c.day) \o "T"
          \o Pad2(secs \div 3600) \o ":" \o Pad2((secs % 3600) \div 60) \o ":"
          \o Pad2(secs % 60) \o "Z"

\* The record slog.LogAttrs emits for a catalog event (handlelogs.go:131-135).
LogRecord(dev, id, ts) ==
    [level |-> mapSeverityToLevel(eventDefinitions[id].Severity),
     msg |-> eventDefinitions[id].Message,
     device_id |-> dev,
     timestamp |-> FormatRFC3339(ts),
     type |-> "devicelog"]

\* The log entries explored: catalog ids, ids outside the catalog (99, 0,
\* a negative one, one above 255) and entries that are not pairs.
LogEntries ==
    { <<5, 1700000000>>, <<13, 0>>, <<99, 1700000000>>, <<0, 1700000000>>,
      <<-1, 1700000000>>, <<261, 1700000000>>, <<5>> }

RECURSIVE SeqsUpTo(_, _)
SeqsUpTo(S, n) ==
    IF n = 0 THEN {<<>>}
    ELSE LET shorter == SeqsUpTo(S, n - 1)
         IN  shorter \cup {Append(q, e) : q \in shorter, e \in S}

\* The decodable bodies explored.
LogBatches ==
    {[DeviceID |-> d, Logs |-> l] : d \in DeviceIds, l \in SeqsUpTo(LogEntries, MaxBatchLen)}

\* The zero value of IncomingLogBatch (var batch, handlelogs.go:88).
ZeroBatch == [DeviceID |-> "", Logs |-> <<>>]

\* r.ReadBody() fails (CoAP only) or the CBOR decoding fails: bad request,
\* return (coap handlelogs.go:91-103, http handlelogs.go:90-93).
BatchLogBadBody(why) ==
    /\ bpc = "idle"
    /\ bRequests < MaxBatchRequests
    /\ why = "read" => transport = "coap"
    /\ bRequests' = bRequests + 1
    /\ batch' = ZeroBatch
    /\ bi' = 1
    /\ bOut' = <<>>
    /\ bSkipped' = 0
    /\ bresp' = BadRequestStatus(transport)
    /\ bpc' = ReturnAfterBadRequest("loop")
    /\ UNCHANGED transport

\* The body decodes into batch; the loop begins (handlelogs.go:99-111).
BatchLogDecoded(b) ==
    /\ bpc = "idle"
    /\ bRequests < MaxBatchRequests
    /\ bRequests' = bRequests + 1
    /\ batch' = b
    /\ bi' = 1
    /\ bOut' = <<>>
    /\ bSkipped' = 0
    /\ bresp' = "none"
    /\ bpc' = "loop"
    /\ UNCHANGED transport

\* The event id the loop looks up for an entry (handlelogs.go:118).
EventIdOf(entry) == Uint8(entry[1])

\* One iteration of for _, entry := range batch.Logs (handlelogs.go:111-136).
BatchLogEntry ==
    /\ bpc = "loop"
    /\ bi <= Len(batch.Logs)
    /\ LET entry == batch.Logs[bi]
       IN  IF Len(entry) # 2
           THEN /\ bSkipped' = bSkipped + 1
                /\ UNCHANGED bOut
           ELSE IF EventIdOf(entry) \notin DOMAIN eventDefinitions
           THEN /\ bSkipped' = bSkipped + 1
                /\ UNCHANGED bOut
           ELSE /\ bOut' = Append(bOut, LogRecord(batch.DeviceID, EventIdOf(entry), entry[2]))
                /\ UNCHANGED bSkipped
    /\ bi' = bi + 1
    /\ UNCHANGED <<transport, bpc, batch, bresp, bRequests>>

\* The range over batch.Logs is left at any entry.
RangeLeftAtOnce == TRUE

\* The range over batch.Logs is exhausted (handlelogs.go:111,136).
RangeDone == bi > Len(batch.Logs)

\* After the loop: the success response (coap handlelogs.go:139,
\* http handlelogs.go:129).
BatchLogRespond ==
    /\ bpc = "loop"
    /\ RangeDone
    /\ bresp' = BatchLogStatus(transport)
    /\ bpc' = "done"
    /\ UNCHANGED <<transport, batch, bi, bOut, bSkipped, bRequests>>

\* The handler returns (deferred span.End(), handlelogs.go:108, 140): its
\* locals are gone and the worker is free for the next request.
BatchLogReturn ==
    /\ bpc = "done"
    /\ bpc' = "idle"
    /\ batch' = ZeroBatch
    /\ bi' = 1
    /\ bOut' = <<>>
    /\ bSkipped' = 0
    /\ UNCHANGED <<transport, bresp, bRequests>>

InitBatch ==
    /\ bpc = "idle"
    /\ batch = ZeroBatch
    /\ bi = 1
    /\ bOut = <<>>
    /\ bSkipped = 0
    /\ bresp = "none"
    /\ bRequests = 0

(***************************************************************************)
(* The client's metric generator: MetricSender (part_002, part_006)         *)
(***************************************************************************)

\* time.Minute, the unit of the clock.
Minute == 1

\* maxTemp := 100.0 (part_002:141, part_006:122)
maxTemp == 100

\* The clock runs from 0 to MaxMinutes minutes.
MaxClock == MaxMinutes * Minute

\* The standard-normal draws explored for the idle temperature: the far tails
\* and the mean.  They are even, so that every Sigma of the generator, which
\* has at most one decimal, gives a whole number.
ZScores == {0 - 1000, 0, 1000}

\* The base temperatures StartAnomaly draws (part_002:100), within [30, 65).
\* maxTemp minus each of them is a multiple of the ramp duration, so that every
\* ramp sample at a whole minute is a whole number.
BaseTemps == {32, 64}

\* The device configurations explored for the HTTP client (part_006:44-53);
\* the base MCU temperatures are within the idle range and, as above, differ
\* from maxTemp by a multiple of the ramp duration.
DeviceConfigs ==
    {[DeviceID |-> "d1", GeoPosition |-> "geo", BaseMCUTemp |-> b,
      BaseThermometer |-> 20, BaseBarometer |-> 1013, BaseHygrometer |-> 50,
      BaseAnemometer |-> 5] : b \in {24, 68}}

\* The zero DeviceConfig: the CoAP MetricSender has no Config.
ZeroConfig ==
    [DeviceID |-> "", GeoPosition |-> "", BaseMCUTemp |-> 0,
     BaseThermometer |-> 0, BaseBarometer |-> 0, BaseHygrometer |-> 0,
     BaseAnemometer |-> 0]

\* distuv.Normal{Mu, Sigma}.Rand() for the standard-normal draw z: Mu + Sigma*z.
\* Sigma is given in tenths.
NormalRand(mu, sigmaTenths, z) == mu + (sigmaTenths * z) \div 10

\* clamp with the upper bound not applied.
clampFromBelow(val, min, max) ==
    IF val < min THEN min ELSE val

\* clamp (part_002:169-177, part_006:206-214)
clamp(val, min, max) ==
    IF val < min THEN min
    ELSE IF val > max THEN max
    ELSE val

\* The raw draw of the idle-phase temperature (part_002:126, part_006:119,133).
IdleTempDraw(z) ==
    IF transport = "coap" THEN NormalRand(45, 25, z)
    ELSE NormalRand(config.BaseMCUTemp, 30, z)

\* The range the idle-phase temperature is clamped to (part_002:139,152;
\* part_006:120,134).
IdleTempRange == IF transport = "coap" THEN <<30, 65>> ELSE <<20, 70>>

\* The idle-phase temperature.
IdleTemp(z) == clamp(IdleTempDraw(z), IdleTempRange[1], IdleTempRange[2])

\* The base of the ramp: s.baseTemp (part_002:145) or s.Config.BaseMCUTemp
\* (part_006:126).
RampBase == IF transport = "coap" THEN baseTemp ELSE config.BaseMCUTemp

\* The ramp temperature: baseTemp + progress*(maxTemp-baseTemp) with
\* progress = elapsed / anomalyDuration (part_002:144-145), for the values b1
\* and b2 the loads of the two operands s.baseTemp return and the value dur
\* the load of s.anomalyDuration returns.
RampTempFrom(b1, b2, elapsed, dur) ==
    b1 + (elapsed * (maxTemp - b2)) \div dur

\* The ramp temperature of the anomaly as the fields stand.
RampTemp(elapsed) ==
    RampTempFrom(RampBase, RampBase, elapsed, anomalyDuration)

\* if elapsed > totalDuration (part_002:136, part_006:116)
AnomalyOver(elapsed, totalDuration) == elapsed > totalDuration

\* The raw draws of the fields other than the temperature: each field takes
\* a draw of its own off the source, in the order of the Metrics literal
\* (part_002:158-163, part_006:147-153), given here as the sequence zs of the
\* standard-normal values drawn.
FieldDraws(zs) ==
    IF transport = "coap"
    THEN [CPUPercent |-> NormalRand(40, 100, zs[1]),
          MemUsedMB |-> NormalRand(2048, 5120, zs[2]),
          DiskUsagePercent |-> NormalRand(60, 200, zs[3]),
          DiskReadMBps |-> NormalRand(3, 10, zs[4]),
          DiskWriteMBps |-> NormalRand(3, 10, zs[5])]
    ELSE [MCUUsagePercent |-> NormalRand(45, 150, zs[1]),
          ThermometerC |-> NormalRand(config.BaseThermometer, 20, zs[2]),
          BarometerHPa |-> NormalRand(config.BaseBarometer, 50, zs[3]),
          HygrometerRH |-> NormalRand(config.BaseHygrometer, 80, zs[4]),
          AnemometerMPS |-> NormalRand(config.BaseAnemometer, 15, zs[5])]

\* The number of fields drawn.
FieldCount == 5

\* The draws of the five fields explored: all five at the mean, all five in
\* the same far tail, and five different values.
FieldDrawTuples ==
    {<<z, z, z, z, z>> : z \in {0 - 1000, 0, 1000}}
        \cup {<<1000, 2, 0 - 2, 0 - 1000, 0>>}

\* The bounds each of these fields is clamped to (part_002:158-163,
\* part_006:147-153).
FieldRange ==
    IF transport = "coap"
    THEN [CPUPercent |-> <<0, 100>>, MemUsedMB |-> <<0, 4096>>,
          DiskUsagePercent |-> <<0, 100>>, DiskReadMBps |-> <<0, 10>>,
          DiskWriteMBps |-> <<0, 10>>]
    ELSE [MCUUsagePercent |-> <<0, 100>>, ThermometerC |-> <<0 - 40, 60>>,
          BarometerHPa |-> <<950, 1050>>, HygrometerRH |-> <<10, 100>>,
          AnemometerMPS |-> <<0, 25>>]

\* The Metrics literal GenerateMetrics returns (part_002:155-164,
\* part_006:143-155) for the temperature t and the draws d of the other fields.
NewMetrics(t, d) ==
    LET c(f) == clamp(d[f], FieldRange[f][1], FieldRange[f][2])
    IN  IF transport = "coap"
        THEN [DeviceID |-> "d1", Timestamp |-> now,
              CPUPercent |-> c("CPUPercent"), MemUsedMB |-> c("MemUsedMB"),
              TempC |-> t, DiskUsagePercent |-> c("DiskUsagePercent"),
              DiskReadMBps |-> c("DiskReadMBps"),
              DiskWriteMBps |-> c("DiskWriteMBps")]
        ELSE [DeviceID |-> config.DeviceID, GeoPosition |-> config.GeoPosition,
              Timestamp |-> now, MCUUsagePercent |-> c("MCUUsagePercent"),
              MCUTempC |-> t,
              ExternalSensors |->
                  [ThermometerC |-> c("ThermometerC"),
                   BarometerHPa |-> c("BarometerHPa"),
                   HygrometerRH |-> c("HygrometerRH"),
                   AnemometerMPS |-> c("AnemometerMPS")]]

\* The clock advances by a minute.
ClockTick ==
    /\ now < MaxClock
    /\ now' = now + Minute
    /\ UNCHANGED <<config, anomalyStartTime, anomalyDuration,
                   anomalyHoldDuration, anomalyActive, baseTemp, gpc,
                   generated, sampleElapsed, triggerDraw, drawn,
                   callTemp, callRead>>

\* The draws of maybeTriggerAnomaly explored: the threshold and the far tail.
TriggerDraws == {2, 1000}

\* if s.anomalyActive { return } (part_002:105-107)
MayTrigger == ~anomalyActive

\* if z > 2.0 (part_002:115)
AboveThreshold(z) == z > 2

\* The anomaly fields of the MetricSender.
anomalyFields ==
    <<anomalyStartTime, anomalyDuration, anomalyHoldDuration, anomalyActive,
      baseTemp>>

\* The locals of the SendMetric call followed.
callLocals ==
    <<generated, sampleElapsed, triggerDraw, drawn, callTemp, callRead>>

\* A call that holds no value read: -1 stands for none.  A value read is
\* held until its last use.
NoRead == [now |-> 0 - 1, start |-> 0 - 1, dur |-> 0 - 1, base |-> 0 - 1]

(***************************************************************************)
(* One SendMetric call, one access at a time                               *)
(*                                                                         *)
(* runMetricSenders starts go sender.SendMetric() on every tick and waits  *)
(* for none (part_002:189-193, part_006:226-230), and MetricSender has no  *)
(* lock, so the calls of one sender overlap.  A call is therefore followed *)
(* one access at a time: each load or store of an anomaly field and each   *)
(* read of the clock is a step of its own, in the order of the source, and *)
(* the steps of the calls interleave.  Every such interleaving is an       *)
(* execution of the program, with no bound on the time a call takes from   *)
(* one access to the next.  The accesses race, so the program has further  *)
(* executions, in which a load returns a value older than the last store   *)
(* or part of a time being stored; they are not explored.  What fails here *)
(* fails on an interleaving already, and the one property that is shown to *)
(* hold, the clamping of the draws, depends on no value loaded from the    *)
(* MetricSender.                                                           *)
(***************************************************************************)

\* maybeTriggerAnomaly: the load of the flag (part_002:105-107,
\* part_006:89-91).
TriggerCheck ==
    /\ gpc = "idle"
    /\ gpc' = IF MayTrigger THEN "draw" ELSE "generate"
    /\ UNCHANGED <<now, config, anomalyFields, callLocals>>

\* The draw z and the test of the threshold (part_002:113-116,
\* part_006:97-100).
TriggerDraw(z) ==
    /\ gpc = "draw"
    /\ triggerDraw' = <<z>>
    /\ gpc' = IF AboveThreshold(z) THEN "now" ELSE "generate"
    /\ UNCHANGED <<now, config, anomalyFields, generated, sampleElapsed,
                   drawn, callTemp, callRead>>

\* StartAnomaly: time.Now() (part_002:96, part_006:81), before its result is
\* stored.
StartAnomalyNow ==
    /\ gpc = "now"
    /\ callRead' = [callRead EXCEPT !.now = now]
    /\ gpc' = "start"
    /\ UNCHANGED <<now, config, anomalyFields, generated, sampleElapsed,
                   triggerDraw, drawn, callTemp>>

\* The positions of a call within StartAnomaly, one per store, and where the
\* call stands after each (part_002:95-101; part_006:80-85, which has no
\* base temperature).
AfterStore ==
    [p \in {"start", "duration", "hold", "active", "base"} |->
        CASE p = "start" -> "duration"
          [] p = "duration" -> "hold"
          [] p = "hold" -> "active"
          [] p = "active" -> IF transport = "coap" THEN "base" ELSE "generate"
          [] p = "base" -> "generate"]

\* The store StartAnomaly makes at position p, with t the time it has read
\* and b the base temperature it draws (part_002:96-100).
StartAnomalyStore(p, t, b) ==
    /\ anomalyStartTime' = IF p = "start" THEN t ELSE anomalyStartTime
    /\ anomalyDuration' = IF p = "duration" THEN Minute * 4 ELSE anomalyDuration
    /\ anomalyHoldDuration' =
          IF p = "hold" THEN 3 * Minute ELSE anomalyHoldDuration
    /\ anomalyActive' = IF p = "active" THEN TRUE ELSE anomalyActive
    /\ baseTemp' = IF p = "base" THEN b ELSE baseTemp

\* One store of StartAnomaly.
StartAnomalyStep(b) ==
    /\ gpc \in DOMAIN AfterStore
    /\ StartAnomalyStore(gpc, callRead.now, b)
    /\ gpc' = AfterStore[gpc]
    /\ callRead' = IF gpc = "start" THEN NoRead ELSE callRead
    /\ UNCHANGED <<now, config, generated, sampleElapsed, triggerDraw, drawn,
                   callTemp>>

\* GenerateMetrics: if s.anomalyActive (part_002:132, part_006:112).
GenReadActive ==
    /\ gpc = "generate"
    /\ gpc' = IF anomalyActive THEN "since" ELSE "idletemp"
    /\ sampleElapsed' = 0 - 1
    /\ UNCHANGED <<now, config, anomalyFields, generated, triggerDraw, drawn,
                   callTemp, callRead>>

\* The load of s.anomalyStartTime, the argument of time.Since (part_002:133).
GenReadStart ==
    /\ gpc = "since"
    /\ callRead' = [callRead EXCEPT !.start = anomalyStartTime]
    /\ gpc' = "elapsed"
    /\ UNCHANGED <<now, config, anomalyFields, generated, sampleElapsed,
                   triggerDraw, drawn, callTemp>>

\* elapsed := time.Since(..): the clock is read (part_002:133).
GenSince ==
    /\ gpc = "elapsed"
    /\ sampleElapsed' = now - callRead.start
    /\ callRead' = NoRead
    /\ gpc' = "total1"
    /\ UNCHANGED <<now, config, anomalyFields, generated, triggerDraw, drawn,
                   callTemp>>

\* totalDuration: the load of s.anomalyDuration (part_002:134).
GenReadDuration ==
    /\ gpc = "total1"
    /\ callRead' = [callRead EXCEPT !.dur = anomalyDuration]
    /\ gpc' = "total2"
    /\ UNCHANGED <<now, config, anomalyFields, generated, sampleElapsed,
                   triggerDraw, drawn, callTemp>>

\* totalDuration: the load of s.anomalyHoldDuration, and the test
\* elapsed > totalDuration (part_002:134-136).
GenReadHold ==
    /\ gpc = "total2"
    /\ gpc' = IF AnomalyOver(sampleElapsed, callRead.dur + anomalyHoldDuration)
              THEN "clear" ELSE "ramptest"
    /\ callRead' = NoRead
    /\ UNCHANGED <<now, config, anomalyFields, generated, sampleElapsed,
                   triggerDraw, drawn, callTemp>>

\* s.anomalyActive = false (part_002:138, part_006:118).
GenClearFlag ==
    /\ gpc = "clear"
    /\ anomalyActive' = FALSE
    /\ gpc' = "idletemp"
    /\ UNCHANGED <<now, config, anomalyStartTime, anomalyDuration,
                   anomalyHoldDuration, baseTemp, callLocals>>

\* The idle temperature, with draw zt (part_002:139,152; part_006:119-120,
\* 133-134).
GenIdleTemp(zt) ==
    /\ gpc = "idletemp"
    /\ callTemp' = <<IdleTemp(zt)>>
    /\ drawn' = [temp |-> <<IdleTempDraw(zt)>>, fields |-> <<>>]
    /\ callRead' = NoRead
    /\ gpc' = "literal"
    /\ UNCHANGED <<now, config, anomalyFields, generated, sampleElapsed,
                   triggerDraw>>

\* if elapsed <= s.anomalyDuration, with the load of the field
\* (part_002:142); beyond the ramp the temperature is maxTemp (147).
GenRampTest ==
    /\ gpc = "ramptest"
    /\ IF sampleElapsed <= anomalyDuration
       THEN gpc' = "progress" /\ UNCHANGED <<callTemp, drawn, callRead>>
       ELSE /\ gpc' = "literal"
            /\ callTemp' = <<maxTemp>>
            /\ drawn' = [temp |-> <<>>, fields |-> <<>>]
            /\ callRead' = NoRead
    /\ UNCHANGED <<now, config, anomalyFields, generated, sampleElapsed,
                   triggerDraw>>

\* progress: the load of s.anomalyDuration (part_002:144).
GenProgress ==
    /\ gpc = "progress"
    /\ callRead' = [callRead EXCEPT !.dur = anomalyDuration]
    /\ gpc' = "base1"
    /\ UNCHANGED <<now, config, anomalyFields, generated, sampleElapsed,
                   triggerDraw, drawn, callTemp>>

\* The ramp (part_002:145, part_006:126): the load of s.baseTemp for one of
\* its two operands.
GenReadBase ==
    /\ gpc = "base1"
    /\ callRead' = [callRead EXCEPT !.base = RampBase]
    /\ gpc' = "base2"
    /\ UNCHANGED <<now, config, anomalyFields, generated, sampleElapsed,
                   triggerDraw, drawn, callTemp>>

\* The ramp (part_002:145, part_006:126): the other load of s.baseTemp, and
\* the temperature.  The language does not order the loads of the two
\* operands; first tells whether the operand loaded before is the left one.
GenRamp(first) ==
    /\ gpc = "base2"
    /\ callTemp' =
          <<IF first
            THEN RampTempFrom(callRead.base, RampBase, sampleElapsed,
                              callRead.dur)
            ELSE RampTempFrom(RampBase, callRead.base, sampleElapsed,
                              callRead.dur)>>
    /\ drawn' = [temp |-> <<>>, fields |-> <<>>]
    /\ callRead' = NoRead
    /\ gpc' = "literal"
    /\ UNCHANGED <<now, config, anomalyFields, generated, sampleElapsed,
                   triggerDraw>>

\* The Metrics literal GenerateMetrics returns (part_002:155-164,
\* part_006:143-155), with zs the draws of the other fields: the clock is
\* read for Timestamp (time.Now).
GenerateLiteral(zs) ==
    /\ gpc = "literal"
    /\ generated' = <<NewMetrics(callTemp[1], FieldDraws(zs))>>
    /\ drawn' = [drawn EXCEPT !.fields = FieldDraws(zs)]
    /\ callTemp' = <<>>
    /\ gpc' = "post"
    /\ UNCHANGED <<now, config, anomalyFields, sampleElapsed, triggerDraw,
                   callRead>>

\* The sample is marshalled and posted (part_002:71-91, part_006:170-202);
\* SendMetric returns the error of the submission or nil, its caller drops
\* the result (part_002:192), and the locals of the call are gone.
SendMetricPost(ok) ==
    /\ gpc = "post"
    /\ gpc' = "idle"
    /\ generated' = <<>>
    /\ sampleElapsed' = 0 - 1
    /\ triggerDraw' = <<>>
    /\ drawn' = [temp |-> <<>>, fields |-> <<>>]
    /\ UNCHANGED <<now, config, anomalyFields, callTemp, callRead>>

\* NewMetricSender (part_002:50-61, part_006:70-77): no anomaly, zero fields.
InitGen ==
    /\ now = 0
    /\ config = ZeroConfig
    /\ anomalyStartTime = 0
    /\ anomalyDuration = 0
    /\ anomalyHoldDuration = 0
    /\ anomalyActive = FALSE
    /\ baseTemp = 0
    /\ gpc = "idle"
    /\ generated = <<>>
    /\ sampleElapsed = 0 - 1
    /\ triggerDraw = <<>>
    /\ drawn = [temp |-> <<>>, fields |-> <<>>]
    /\ callTemp = <<>>
    /\ callRead = NoRead

(***************************************************************************)
(* The SendMetric calls of one MetricSender                                *)
(*                                                                         *)
(* Beside the call followed, whose sample is observed, a second call on    *)
(* the same MetricSender takes the same steps.  Of that call the steps     *)
(* that load or store an anomaly field or read the clock are followed;     *)
(* its sample is not, so the call is left where it has made its last       *)
(* store: what it loads after that has no effect on the sender.            *)
(***************************************************************************)

\* Bound on the SendMetric calls runMetricSenders starts on the sender.
MaxRaceCalls == 2

\* The other call holds no value read.
NoOtherRead ==
    [now |-> 0 - 1, start |-> 0 - 1, elapsed |-> 0 - 1, dur |-> 0 - 1]

\* The call followed begins, one of the calls runMetricSenders starts
\* (part_002:192), and loads the flag (part_002:105).
FollowedBegins ==
    /\ raceCalls < MaxRaceCalls
    /\ TriggerCheck
    /\ raceCalls' = raceCalls + 1
    /\ UNCHANGED <<otherPc, otherRead>>

\* The other call begins (part_002:192, 63-64).
OtherBegins ==
    /\ raceCalls < MaxRaceCalls
    /\ otherPc = "idle"
    /\ otherPc' = "check"
    /\ raceCalls' = raceCalls + 1
    /\ UNCHANGED genVars
    /\ UNCHANGED otherRead

\* The other call loads the flag (part_002:105-107).
OtherCheck ==
    /\ otherPc = "check"
    /\ otherPc' = IF MayTrigger THEN "draw" ELSE "generate"
    /\ UNCHANGED genVars
    /\ UNCHANGED <<otherRead, raceCalls>>

\* The other call draws z and tests the threshold (part_002:113-116).
OtherDraw(z) ==
    /\ otherPc = "draw"
    /\ otherPc' = IF AboveThreshold(z) THEN "now" ELSE "generate"
    /\ UNCHANGED genVars
    /\ UNCHANGED <<otherRead, raceCalls>>

\* time.Now() of StartAnomaly in the other call (part_002:96).
OtherStartAnomalyNow ==
    /\ otherPc = "now"
    /\ otherRead' = [otherRead EXCEPT !.now = now]
    /\ otherPc' = "start"
    /\ UNCHANGED genVars
    /\ UNCHANGED raceCalls

\* One store of StartAnomaly in the other call.
OtherStartAnomalyStep(b) ==
    /\ otherPc \in DOMAIN AfterStore
    /\ StartAnomalyStore(otherPc, otherRead.now, b)
    /\ otherPc' = AfterStore[otherPc]
    /\ otherRead' = IF otherPc = "start" THEN NoOtherRead ELSE otherRead
    /\ UNCHANGED <<now, config, gpc, callLocals>>
    /\ UNCHANGED raceCalls

\* GenerateMetrics of the other call: if s.anomalyActive (part_002:132);
\* with the flag read false the call stores nothing any more.
OtherReadActive ==
    /\ otherPc = "generate"
    /\ otherPc' = IF anomalyActive THEN "since" ELSE "idle"
    /\ UNCHANGED genVars
    /\ UNCHANGED <<otherRead, raceCalls>>

\* The load of s.anomalyStartTime (part_002:133).
OtherReadStart ==
    /\ otherPc = "since"
    /\ otherRead' = [otherRead EXCEPT !.start = anomalyStartTime]
    /\ otherPc' = "elapsed"
    /\ UNCHANGED genVars
    /\ UNCHANGED raceCalls

\* time.Since: the clock is read (part_002:133).
OtherSince ==
    /\ otherPc = "elapsed"
    /\ otherRead' =
          [otherRead EXCEPT !.elapsed = now - otherRead.start,
                            !.start = 0 - 1]
    /\ otherPc' = "total1"
    /\ UNCHANGED genVars
    /\ UNCHANGED raceCalls

\* The load of s.anomalyDuration (part_002:134).
OtherReadDuration ==
    /\ otherPc = "total1"
    /\ otherRead' = [otherRead EXCEPT !.dur = anomalyDuration]
    /\ otherPc' = "total2"
    /\ UNCHANGED genVars
    /\ UNCHANGED raceCalls

\* The load of s.anomalyHoldDuration and the test elapsed > totalDuration
\* (part_002:134-136); with the anomaly not over the call stores nothing any
\* more.
OtherReadHold ==
    /\ otherPc = "total2"
    /\ otherPc' = IF AnomalyOver(otherRead.elapsed,
                                 otherRead.dur + anomalyHoldDuration)
                  THEN "clear" ELSE "idle"
    /\ otherRead' = NoOtherRead
    /\ UNCHANGED genVars
    /\ UNCHANGED raceCalls

\* s.anomalyActive = false (part_002:138).
OtherClearFlag ==
    /\ otherPc = "clear"
    /\ anomalyActive' = FALSE
    /\ otherPc' = "idle"
    /\ UNCHANGED <<now, config, anomalyStartTime, anomalyDuration,
                   anomalyHoldDuration, baseTemp, gpc, callLocals>>
    /\ UNCHANGED <<otherRead, raceCalls>>

\* No other call is running.
InitRace == otherPc = "idle" /\ otherRead = NoOtherRead /\ raceCalls = 0

(***************************************************************************)
(* The random source of the generator                                      *)
(*                                                                         *)
(* Every distuv.Normal of the generator is built without a Src             *)
(* (part_002:109-112,124-129; part_006:93-96,108-113), so each Rand() call *)
(* takes the next value of the one source of the process, which every      *)
(* MetricSender shares; the program hands the generator no source of its   *)
(* own.  A source started from a seed yields a fixed stream of values.     *)
(***************************************************************************)

\* The seeds explored.
Seeds == {1, 2}

\* Bound on the values the other MetricSenders take off the source.
MaxOtherDraws == 1

\* The stream of standard-normal values of each seed, one period of it.
StreamOf ==
    <<  <<0, 1000, 2, 0 - 2, 0 - 1000, 0>>,
        <<2, 0, 0 - 1000, 0 - 2, 1000, 0>>  >>

\* The period of the streams explored.
StreamPeriod == Len(StreamOf[1])

\* The value at position i of the stream of seed s.
Stream(s, i) == StreamOf[s][(i % StreamPeriod) + 1]

\* n values are taken off the source by the MetricSender modelled.
TakeOwn(n) ==
    /\ rngPos' = (rngPos + n) % StreamPeriod
    /\ UNCHANGED <<seed, otherDraws>>

\* No GenerateMetrics call is in progress.
NoCallLocals == callStamp = <<>> /\ callDraws = <<>>

\* The draw of maybeTriggerAnomaly is the source's next value
\* (part_002:113).
SeededTriggerDraw ==
    /\ TriggerDraw(Stream(seed, rngPos))
    /\ TakeOwn(1)
    /\ UNCHANGED <<callStamp, callDraws>>

\* The draw of the idle temperature is the source's next value
\* (part_002:139,152).
SeededIdleTemp ==
    /\ GenIdleTemp(Stream(seed, rngPos))
    /\ TakeOwn(1)
    /\ UNCHANGED <<callStamp, callDraws>>

\* The Metrics literal of GenerateMetrics begins with the clock read for
\* Timestamp (part_002:157, part_006:145), before any field is drawn.
SeededStamp ==
    /\ gpc = "literal"
    /\ callStamp = <<>>
    /\ callStamp' = <<now>>
    /\ UNCHANGED <<seed, rngPos, otherDraws, callDraws>>
    /\ UNCHANGED <<now, config, anomalyFields, gpc, callLocals>>

\* The fields of the literal, one draw at a time (part_002:158-163,
\* part_006:146-154): each Rand() takes the source's next value, and the
\* literal is returned with the last, stamped with the time read before.
SeededFieldDraw ==
    /\ gpc = "literal"
    /\ callStamp # <<>>
    /\ LET zs == Append(callDraws, Stream(seed, rngPos))
           stamp == callStamp[1]
       IN  IF Len(zs) < FieldCount
           THEN /\ callDraws' = zs
                /\ UNCHANGED <<callStamp, callTemp, gpc, generated, drawn>>
           ELSE /\ generated' =
                      <<[NewMetrics(callTemp[1], FieldDraws(zs))
                            EXCEPT !.Timestamp = stamp]>>
                /\ drawn' = [drawn EXCEPT !.fields = FieldDraws(zs)]
                /\ gpc' = "post"
                /\ callTemp' = <<>>
                /\ callStamp' = <<>>
                /\ callDraws' = <<>>
    /\ TakeOwn(1)
    /\ UNCHANGED <<now, config, anomalyFields, sampleElapsed, triggerDraw,
                   callRead>>

\* Another SendMetric goroutine of the process (part_002:191-193), of
\* another MetricSender or of this one past the steps followed, takes the
\* next value of the source.
OtherSenderDraws ==
    /\ otherDraws < MaxOtherDraws
    /\ rngPos' = (rngPos + 1) % StreamPeriod
    /\ otherDraws' = otherDraws + 1
    /\ UNCHANGED <<seed, callStamp, callDraws>>

\* The draw of maybeTriggerAnomaly in the other call on this MetricSender is
\* the source's next value as well.
SeededOtherDraw ==
    /\ OtherDraw(Stream(seed, rngPos))
    /\ OtherSenderDraws

\* The source is at the start of the stream of the first seed.
InitRng == seed = 1 /\ rngPos = 0 /\ otherDraws = 0 /\ NoCallLocals

(***************************************************************************)
(* The client's periodic loops: runLogSenders, runMetricSenders, the event *)
(* generators and main                                                     *)
(***************************************************************************)

\* The slices senders of the two loops: one sender per device, in the order
\* of the configuration.
Senders == <<"d1", "d2">>

\* cfg.BatchSize, the batchSize argument of runLogSenders.
LoopBatchSize == 1

\* A loop waiting in its select.
AtSelect == [pc |-> "select", i |-> 0]

\* A loop that goes back to its select on ctx.Done().
StoppedStillSelecting == [pc |-> "select", i |-> 0]

\* A loop that has returned.
Stopped == [pc |-> "stopped", i |-> 0]

\* The variables of the log loop, of the metric loop, of the event generators
\* and of main.
logLoopVars == <<logTick, logLoop, buffered>>
metricLoopVars == <<metricTick, metricLoop, metricRunning, metricGenerating>>
eventGenVars == <<genLoop, genTimer, eventsFired>>
mainVars == <<cancelled, exited>>

\* handleShutdown calls cancelFunc (randlogeventgenerator.go:152-158).
Cancel ==
    /\ ~cancelled
    /\ cancelled' = TRUE
    /\ UNCHANGED <<exited, ticksFired, logLoopVars, metricLoopVars,
                   eventGenVars>>

\* main returns only once every goroutine it started has returned.
MainMayReturnAfterJoin ==
    /\ cancelled
    /\ logLoop.pc = "stopped"
    /\ metricLoop.pc = "stopped"
    /\ \A d \in DeviceIds : genLoop[d] = "stopped" /\ metricRunning[d] = 0

\* main is past <-ctx.Done() (randlogeventgenerator.go:227).
MainMayReturn == cancelled

\* main returns (randlogeventgenerator.go:227-229) and the process exits,
\* which ends every goroutine where it stands.
MainReturn ==
    /\ ~exited
    /\ MainMayReturn
    /\ exited' = TRUE
    /\ UNCHANGED <<cancelled, ticksFired, logLoopVars, metricLoopVars,
                   eventGenVars>>

\* The ticker of runLogSenders fires (part_001:171): ticker.C holds at most
\* one tick, a tick that finds one pending is dropped; the deferred
\* ticker.Stop() ends it when the loop returns.
LogTickerFires ==
    /\ ticksFired < MaxTicks
    /\ logLoop.pc # "stopped"
    /\ logTick' = TRUE
    /\ ticksFired' = ticksFired + 1
    /\ UNCHANGED <<logLoop, buffered, mainVars, metricLoopVars, eventGenVars>>

\* The ticker of runMetricSenders fires (part_002:181).
MetricTickerFires ==
    /\ ticksFired < MaxTicks
    /\ metricLoop.pc # "stopped"
    /\ metricTick' = TRUE
    /\ ticksFired' = ticksFired + 1
    /\ UNCHANGED <<metricLoop, metricRunning, metricGenerating, mainVars,
                   logLoopVars, eventGenVars>>

\* runLogSenders: case <-ctx.Done() (part_001:176-178).  When a tick is pending
\* too, select takes either case.
LogLoopStop ==
    /\ logLoop.pc = "select"
    /\ cancelled
    /\ logLoop' = Stopped
    /\ UNCHANGED <<logTick, buffered, ticksFired, mainVars, metricLoopVars,
                   eventGenVars>>

\* runLogSenders: case <-ticker.C (part_001:179-180).
LogLoopTick ==
    /\ logLoop.pc = "select"
    /\ logTick
    /\ logTick' = FALSE
    /\ logLoop' = [pc |-> "range", i |-> 1]
    /\ UNCHANGED <<buffered, ticksFired, mainVars, metricLoopVars,
                   eventGenVars>>

\* runLogSenders: the loop calls sender.SendBatch(ctx, batchSize) for device d
\* (part_001:181) and is inside the call until it returns; the call takes up
\* to batchSize entries off the device's buffer (part_001:154-162).
LogLoopCall(d) ==
    /\ logLoop.pc = "range"
    /\ logLoop.i <= Len(Senders)
    /\ Senders[logLoop.i] = d
    /\ logLoop' = [logLoop EXCEPT !.pc = "call"]
    /\ buffered' = [buffered EXCEPT ![d] = @ - Min(LoopBatchSize, @)]
    /\ UNCHANGED <<logTick, ticksFired, mainVars, metricLoopVars,
                   eventGenVars>>

\* runLogSenders: SendBatch returns, with an error that is logged or with nil
\* (part_001:181-183), and the loop goes on to the next sender.
LogLoopCallReturns(ok) ==
    /\ logLoop.pc = "call"
    /\ logLoop' = [pc |-> "range", i |-> logLoop.i + 1]
    /\ UNCHANGED <<logTick, buffered, ticksFired, mainVars, metricLoopVars,
                   eventGenVars>>

\* runLogSenders: the range over senders is exhausted (part_001:184-186).
LogLoopRangeEnd ==
    /\ logLoop.pc = "range"
    /\ logLoop.i > Len(Senders)
    /\ logLoop' = AtSelect
    /\ UNCHANGED <<logTick, buffered, ticksFired, mainVars, metricLoopVars,
                   eventGenVars>>

\* runMetricSenders: case <-ctx.Done() (part_002:186-188, part_006:223-225).
MetricLoopStop ==
    /\ metricLoop.pc = "select"
    /\ cancelled
    /\ metricLoop' = Stopped
    /\ UNCHANGED <<metricTick, metricRunning, metricGenerating, ticksFired,
                   mainVars, logLoopVars, eventGenVars>>

\* runMetricSenders: case <-ticker.C (part_002:189-191, part_006:226-228).
MetricLoopTick ==
    /\ metricLoop.pc = "select"
    /\ metricTick
    /\ metricTick' = FALSE
    /\ metricLoop' = [pc |-> "range", i |-> 1]
    /\ UNCHANGED <<metricRunning, metricGenerating, ticksFired, mainVars,
                   logLoopVars, eventGenVars>>

\* runMetricSenders: go sender.SendMetric(ctx) for device d (part_002:192,
\* part_006:229); the loop goes on to the next sender at once.  The new
\* goroutine has maybeTriggerAnomaly and GenerateMetrics before it.
MetricLoopGo(d) ==
    /\ metricLoop.pc = "range"
    /\ metricLoop.i <= Len(Senders)
    /\ Senders[metricLoop.i] = d
    /\ metricRunning' = [metricRunning EXCEPT ![d] = @ + 1]
    /\ metricGenerating' = [metricGenerating EXCEPT ![d] = @ + 1]
    /\ metricLoop' = [metricLoop EXCEPT !.i = @ + 1]
    /\ UNCHANGED <<metricTick, ticksFired, mainVars, logLoopVars,
                   eventGenVars>>

\* runMetricSenders: the range over senders is exhausted (part_002:193-195).
MetricLoopRangeEnd ==
    /\ metricLoop.pc = "range"
    /\ metricLoop.i > Len(Senders)
    /\ metricLoop' = AtSelect
    /\ UNCHANGED <<metricTick, metricRunning, metricGenerating, ticksFired,
                   mainVars, logLoopVars, eventGenVars>>

\* A SendMetric goroutine of device d has run maybeTriggerAnomaly and
\* GenerateMetrics (part_002:64-70) and goes on to marshal and post.
SendMetricGenerated(d) ==
    /\ metricGenerating[d] > 0
    /\ metricGenerating' = [metricGenerating EXCEPT ![d] = @ - 1]
    /\ UNCHANGED <<metricTick, metricLoop, metricRunning, ticksFired,
                   mainVars, logLoopVars, eventGenVars>>

\* A SendMetric goroutine of device d that has its sample returns, with an
\* error or with nil (part_002:71-92); nothing receives the result.
SendMetricReturns(d, ok) ==
    /\ metricRunning[d] > metricGenerating[d]
    /\ metricRunning' = [metricRunning EXCEPT ![d] = @ - 1]
    /\ UNCHANGED <<metricTick, metricLoop, metricGenerating, ticksFired,
                   mainVars, logLoopVars, eventGenVars>>

\* The timer of device d's event generator fires
\* (randlogeventgenerator.go:38): its case of the select is ready.
EventTimerFires(d) ==
    /\ eventsFired < MaxEvents
    /\ genLoop[d] = "select"
    /\ ~genTimer[d]
    /\ genTimer' = [genTimer EXCEPT ![d] = TRUE]
    /\ eventsFired' = eventsFired + 1
    /\ UNCHANGED <<genLoop, ticksFired, mainVars, logLoopVars,
                   metricLoopVars>>

\* The event generator of device d: case <-time.After(randomInterval)
\* (randlogeventgenerator.go:38-42); addEvent appends one entry to the
\* device's buffer, which keeps the last 200, and the loop arms a new timer.
EventGenAppend(d) ==
    /\ genLoop[d] = "select"
    /\ genTimer[d]
    /\ genTimer' = [genTimer EXCEPT ![d] = FALSE]
    /\ buffered' = [buffered EXCEPT ![d] = Min(@ + 1, LogCacheCap)]
    /\ UNCHANGED <<genLoop, eventsFired, ticksFired, mainVars, logTick,
                   logLoop, metricLoopVars>>

\* The event generator of device d: case <-ctx.Done()
\* (randlogeventgenerator.go:35-37).  When the timer has fired too, select
\* takes either case.
EventGenStop(d) ==
    /\ genLoop[d] = "select"
    /\ cancelled
    /\ genLoop' = [genLoop EXCEPT ![d] = "stopped"]
    /\ UNCHANGED <<genTimer, eventsFired, ticksFired, mainVars, logLoopVars,
                   metricLoopVars>>

\* main has started the event generators and both loops
\* (randlogeventgenerator.go:215-221) and waits for ctx.Done().
InitLoops ==
    /\ cancelled = FALSE
    /\ exited = FALSE
    /\ logTick = FALSE
    /\ metricTick = FALSE
    /\ ticksFired = 0
    /\ logLoop = AtSelect
    /\ metricLoop = AtSelect
    /\ metricRunning = [d \in DeviceIds |-> 0]
    /\ metricGenerating = [d \in DeviceIds |-> 0]
    /\ genLoop = [d \in DeviceIds |-> "select"]
    /\ genTimer = [d \in DeviceIds |-> FALSE]
    /\ eventsFired = 0
    /\ buffered = [d \in DeviceIds |-> 0]

(***************************************************************************)
(* LogSender.addEvent and the client's catalog (part_001:18-59,121-132)    *)
(***************************************************************************)

\* eventDefinitions of the client (part_001:19-57).
clientEventDefinitions ==
    [i \in 1..27 |->
       CASE i = 1 -> [Severity |-> "DEBUG", Message |-> "Dispositivo in fase di inizializzazione"]
         [] i = 2 -> [Severity |-> "DEBUG", Message |-> "Controllo stato rete"]
         [] i = 3 -> [Severity |-> "DEBUG", Message |-> "Avvio modulo sensore"]
         [] i = 4 -> [Severity |-> "DEBUG", Message |-> "Sincronizzazione orologio"]
         [] i = 5 -> [Severity |-> "INFO", Message |-> "Avvio completato"]
         [] i = 6 -> [Severity |-> "INFO", Message |-> "Temperatura normale"]
         [] i = 7 -> [Severity |-> "INFO", Message |-> "CPU sotto soglia"]
         [] i = 8 -> [Severity |-> "INFO", Message |-> "Heartbeat inviato"]
         [] i = 9 -> [Severity |-> "NOTICE", Message |-> "Cambio configurazione"]
         [] i = 10 -> [Severity |-> "NOTICE", Message |-> "Aggiornamento firmware disponibile"]
         [] i = 11 -> [Severity |-> "NOTICE", Message |-> "Sensore temporaneamente inattivo"]
         [] i = 12 -> [Severity |-> "NOTICE", Message |-> "Collegamento rete ristabilito"]
         [] i = 13 -> [Severity |-> "WARNING", Message |-> "Temperatura elevata"]
         [] i = 14 -> [Severity |-> "WARNING", Message |-> "Consumo CPU sopra la soglia"]
         [] i = 15 -> [Severity |-> "WARNING", Message |-> "Batteria in esaurimento"]
         [] i = 16 -> [Severity |-> "WARNING", Message |-> "Perdita pacchetti rilevata"]
         [] i = 17 -> [Severity |-> "ERROR", Message |-> "Impossibile connettersi al server"]
         [] i = 18 -> [Severity |-> "ERROR", Message |-> "Errore lettura sensore"]
         [] i = 19 -> [Severity |-> "ERROR", Message |-> "Timeout nella risposta del server"]
         [] i = 20 -> [Severity |-> "ERROR", Message |-> "Scrittura su memoria fallita"]
         [] i = 21 -> [Severity |-> "CRITICAL", Message |-> "Perdita connessione permanente"]
         [] i = 22 -> [Severity |-> "CRITICAL", Message |-> "Dati corrotti nella memoria"]
         [] i = 23 -> [Severity |-> "ALERT", Message |-> "Accesso non autorizzato rilevato"]
         [] i = 24 -> [Severity |-> "ALERT", Message |-> "Possibile attacco DoS in corso"]
         [] i = 25 -> [Severity |-> "EMERGENCY", Message |-> "Sistema in stato critico - riavvio necessario"]
         [] i = 26 -> [Severity |-> "EMERGENCY", Message |-> "Errore hardware irreversibile"]
         [] OTHER -> [Severity |-> "EMERGENCY", Message |-> "Guasto alimentazione principale"]]

\* The ids addEvent is called with: keys of the catalog, its neighbours 0 and
\* 28 and the largest uint8.
ClientEventIds == {0, 1, 5, 13, 27, 28, 255}

\* The Unix time of the first event of a run.
FirstEventTime == 1700000000

\* Variant of KnownToClient that knows every id.
KnownToClientAlways(id) == TRUE

\* _, ok := eventDefinitions[id] (part_001:124)
KnownToClient(id) == id \in DOMAIN clientEventDefinitions

\* addEvent(id) at time ts, on cache c: an id outside the catalog is only
\* logged; otherwise AddLog appends LogEntryCompact{int64(id), ts} and trims
\* the cache (part_001:122-145).
addEvent(c, id, ts) ==
    IF ~KnownToClient(id) THEN c ELSE TrimCache(Append(c, <<id, ts>>))

\* The cache after addEvent has been called with each of ids in turn, a
\* second apart.
RECURSIVE CacheAfterEvents(_)
CacheAfterEvents(ids) ==
    IF ids = <<>> THEN <<>>
    ELSE addEvent(CacheAfterEvents(SubSeq(ids, 1, Len(ids) - 1)),
                  ids[Len(ids)], FirstEventTime + Len(ids))

\* The payload Send posts for the batch SendBatch takes off cache c
\* (part_001:96-99,154-166); the server decodes it into IncomingLogBatch.
ClientPayload(dev, c) == [DeviceID |-> dev, Logs |-> BatchOf(c, MaxBatchLen)]

(***************************************************************************)
(* The wait of the event generator (randlogeventgenerator.go:29-43)        *)
(***************************************************************************)

\* Bound on the ends of the ranges explored, in seconds.
MaxInterval == 4

\* Bound on the events one generator adds.
MaxWaitRounds == 3

\* The configured ranges explored: every Min <= Max up to the bound.
IntervalRanges ==
    {c \in [Min : 0..MaxInterval, Max : 0..MaxInterval] : c.Min <= c.Max}

\* rand.Int63n(n) panics unless n > 0, and otherwise returns a value of
\* [0, n) (randlogeventgenerator.go:32).
Int63nPanics(n) == n <= 0

\* The values rand.Int63n(n) can return.
Int63nValues(n) == 0..(n - 1)

\* intervalRange := config.Max - config.Min
\* (randlogeventgenerator.go:31)
IntervalRange == evConfig.Max - evConfig.Min

\* The generator computes the wait of its next round, with r the value of
\* rand.Int63n (randlogeventgenerator.go:31-32); a panic of Int63n ends the
\* goroutine and, unrecovered, the process.
ChooseInterval(r) ==
    /\ evpc = "compute"
    /\ IF Int63nPanics(IntervalRange)
       THEN /\ r = 0
            /\ evpc' = "panic"
            /\ UNCHANGED evWait
       ELSE /\ r \in Int63nValues(IntervalRange)
            /\ evWait' = <<evConfig.Min + r>>
            /\ evpc' = "select"
    /\ UNCHANGED <<evConfig, evRounds>>

\* The wait is over: the generator adds an event and starts the next round
\* (randlogeventgenerator.go:38-42).
WaitOver ==
    /\ evpc = "select"
    /\ evRounds < MaxWaitRounds
    /\ evRounds' = evRounds + 1
    /\ evWait' = <<>>
    /\ evpc' = "compute"
    /\ UNCHANGED evConfig

\* The context is cancelled during the wait: the generator returns
\* (randlogeventgenerator.go:35-37).
WaitCancelled ==
    /\ evpc = "select"
    /\ evpc' = "stopped"
    /\ UNCHANGED <<evConfig, evWait, evRounds>>

\* The generator starts with the range of loadConfig
\* (randlogeventgenerator.go:101-104).
InitWait ==
    /\ evConfig = [Min |-> 10, Max |-> 15]
    /\ evpc = "compute"
    /\ evWait = <<>>
    /\ evRounds = 0

(***************************************************************************)
(* Specification of the log buffer                                         *)
(***************************************************************************)

InitLog ==
    /\ logCache = <<>>
    /\ cacheMutex = "free"
    /\ pc = [t \in LogThreads |-> "idle"]
    /\ batchSize = [t \in Drainers |-> 0]
    /\ entries = [t \in Drainers |-> <<>>]
    /\ appended = 0
    /\ sinceDrain = 0
    /\ evicted = <<>>
    /\ handed = <<>>
    /\ drains = 0
    /\ posts = 0
    /\ ret = "none"

\* No function evaluation is in progress.
InitCalc ==
    /\ temp = 0 /\ sevOut = <<>> /\ sevIn = "" /\ levelOut = <<>>
    /\ msgOut = <<>> /\ shownOut = <<>>

Init ==
    /\ InitLog /\ InitCache /\ InitBatch /\ InitCalc /\ InitGen /\ InitLoops
    /\ InitRng /\ InitWait /\ InitRace
    /\ transport = "coap"

\* History: the number of appends since the last drain that removed entries,
\* over runs of at most MaxDrainsCap SendBatch calls.
CountSinceDrain ==
    /\ UNCHANGED outsideLog
    /\ drains' <= MaxDrainsCap
    /\ sinceDrain' = IF handed' # handed THEN 0
                     ELSE IF appended' # appended THEN sinceDrain + 1
                     ELSE sinceDrain

\* The appends since the last drain are not counted.
NoCount == UNCHANGED <<sinceDrain, outsideLog>>

\* One generator and concurrent callers of SendBatch on one device.
NextLog ==
    \/ AddLogLock /\ NoCount
    \/ AddLogAppend /\ NoCount
    \/ AddLogTrim /\ NoCount
    \/ \E t \in Drainers, b \in BatchSizes :
          SendBatchLock(t, b) /\ NoCount
    \/ \E t \in Drainers : SendBatchEmpty(t) /\ NoCount
    \/ \E t \in Drainers : SendBatchTake(t) /\ NoCount
    \/ \E t \in Drainers, ok \in BOOLEAN : Send(t, ok) /\ NoCount

SpecLog == Init /\ [][NextLog]_vars

\* One generator and the single runLogSenders loop (part_001:170-187), which
\* calls SendBatch sequentially; the appends since the last drain are counted.
NextLogCap ==
    \/ AddLogLock /\ CountSinceDrain
    \/ AddLogAppend /\ CountSinceDrain
    \/ AddLogTrim /\ CountSinceDrain
    \/ \E b \in BatchSizes : SendBatchLock(LoopThread, b) /\ CountSinceDrain
    \/ SendBatchEmpty(LoopThread) /\ CountSinceDrain
    \/ SendBatchTake(LoopThread) /\ CountSinceDrain
    \/ \E ok \in BOOLEAN : Send(LoopThread, ok) /\ CountSinceDrain

SpecLogCap == Init /\ [][NextLogCap]_vars

(***************************************************************************)
(* Specification of the metric cache                                       *)
(***************************************************************************)

\* The submissions the workers of this specification receive: both samples
\* for d1, the hot one for d2.
CacheInputs == {Sample("d1", 1), Sample("d1", 2), Sample("d2", 1)}

\* Concurrent ingestion workers and the periodic export callback.
NextCache ==
    \/ \E h \in Workers, why \in {"read", "decode"} :
          MetricsBadBody(h, why) /\ UNCHANGED outsideCache
    \/ \E h \in Workers, m \in CacheInputs :
          MetricsDecoded(h, m) /\ UNCHANGED outsideCache
    \/ \E h \in Workers : UpdateLock(h) /\ UNCHANGED outsideCache
    \/ \E h \in Workers : UpdateWriteHead(h) /\ UNCHANGED outsideCache
    \/ \E h \in Workers : UpdateWriteTail(h) /\ UNCHANGED outsideCache
    \/ \E h \in Workers : MetricsLog(h) /\ UNCHANGED outsideCache
    \/ \E h \in Workers : MetricsRespond(h) /\ UNCHANGED outsideCache
    \/ CallbackRLock /\ UNCHANGED outsideCache
    \/ \E k \in DeviceIds : CallbackObserve(k) /\ UNCHANGED outsideCache
    \/ CallbackReturn /\ UNCHANGED outsideCache

SpecCache == Init /\ [][NextCache]_vars

\* The submissions of the specification below: one of d1, one of d2 and one
\* that decodes without a device_id, whose DeviceID is the empty string.
KeyInputs == {Sample("d1", 1), Sample("d2", 2), Sample("", 2)}

\* The keys the cache can then hold.
CacheKeys == DeviceIds \cup {""}

\* The same workers and callback with these submissions.
NextCacheKeys ==
    \/ \E h \in Workers, why \in {"read", "decode"} :
          MetricsBadBody(h, why) /\ UNCHANGED outsideCache
    \/ \E h \in Workers, m \in KeyInputs :
          MetricsDecoded(h, m) /\ UNCHANGED outsideCache
    \/ \E h \in Workers : UpdateLock(h) /\ UNCHANGED outsideCache
    \/ \E h \in Workers : UpdateWriteHead(h) /\ UNCHANGED outsideCache
    \/ \E h \in Workers : UpdateWriteTail(h) /\ UNCHANGED outsideCache
    \/ \E h \in Workers : MetricsLog(h) /\ UNCHANGED outsideCache
    \/ \E h \in Workers : MetricsRespond(h) /\ UNCHANGED outsideCache
    \/ CallbackRLock /\ UNCHANGED outsideCache
    \/ \E k \in CacheKeys : CallbackObserve(k) /\ UNCHANGED outsideCache
    \/ CallbackReturn /\ UNCHANGED outsideCache

SpecCacheKeys == Init /\ [][NextCacheKeys]_vars

(***************************************************************************)
(* Specification of the submission endpoints                               *)
(***************************************************************************)

\* The sample the /batchMetric worker of this specification receives.
ServerSample == Sample("d1", 1)

InitServer ==
    /\ InitLog /\ InitCache /\ InitBatch /\ InitCalc /\ InitGen /\ InitLoops
    /\ InitRng /\ InitWait /\ InitRace
    /\ transport \in Transports

\* Whether the worker of this specification is between two requests.
ServerWorkerIdle == bpc = "idle" /\ hpc["h1"] = "idle"

\* One server, CoAP or HTTP, whose worker h1 serves one request at a time,
\* on /batchLog or on /batchMetric.
NextServer ==
    \/ \E why \in {"read", "decode"} :
          ServerWorkerIdle /\ BatchLogBadBody(why) /\ UNCHANGED outsideBatch
    \/ \E b \in LogBatches :
          ServerWorkerIdle /\ BatchLogDecoded(b) /\ UNCHANGED outsideBatch
    \/ BatchLogEntry /\ UNCHANGED outsideBatch
    \/ BatchLogRespond /\ UNCHANGED outsideBatch
    \/ BatchLogReturn /\ UNCHANGED outsideBatch
    \/ \E why \in {"read", "decode"} :
          ServerWorkerIdle /\ MetricsBadBody("h1", why) /\ UNCHANGED outsideCache
    \/ ServerWorkerIdle /\ MetricsDecoded("h1", ServerSample) /\ UNCHANGED outsideCache
    \/ UpdateLock("h1") /\ UNCHANGED outsideCache
    \/ UpdateWriteHead("h1") /\ UNCHANGED outsideCache
    \/ UpdateWriteTail("h1") /\ UNCHANGED outsideCache
    \/ MetricsLog("h1") /\ UNCHANGED outsideCache
    \/ MetricsRespond("h1") /\ UNCHANGED outsideCache

SpecServer == InitServer /\ [][NextServer]_vars

(***************************************************************************)
(* Specification of a batch from the client's cache to the server          *)
(***************************************************************************)

\* A batch of the events the client has added arrives at the batch-log
\* handler; SendBatch submits nothing when the cache is empty
\* (part_001:149-152).
ClientBatchArrives(dev, ids) ==
    /\ CacheAfterEvents(ids) # <<>>
    /\ BatchLogDecoded(ClientPayload(dev, CacheAfterEvents(ids)))

NextEndToEnd ==
    \/ \E dev \in DeviceIds, ids \in SeqsUpTo(ClientEventIds, MaxBatchLen) :
          ClientBatchArrives(dev, ids) /\ UNCHANGED outsideBatch
    \/ BatchLogEntry /\ UNCHANGED outsideBatch
    \/ BatchLogRespond /\ UNCHANGED outsideBatch
    \/ BatchLogReturn /\ UNCHANGED outsideBatch

SpecEndToEnd == InitServer /\ [][NextEndToEnd]_vars

(***************************************************************************)
(* Specification of the classification functions                           *)
(***************************************************************************)

\* The temperatures explored: all five bands and their boundaries.
TempRange == (0 - 10)..MaxTemp

\* The eight severity names (log.go:12-21, handlelogs.go:65-80).
SeverityNames == {"DEBUG", "INFO", "NOTICE", "WARNING", "ERROR", "CRITICAL",
                  "ALERT", "EMERGENCY"}

\* The severity strings explored: the eight names in upper, lower, capitalised
\* and mixed case, and strings that are none of them.
SeverityInputs ==
    SeverityNames \cup
    {"debug", "Debug", "info", "Info", "iNFO", "notice", "Notice", "warning",
     "Warning", "error", "Error", "critical", "Critical", "alert", "Alert",
     "aLeRt", "emergency", "Emergency"} \cup
    {"", "warn", "WARN", "fatal", "FATAL", "TRACE", "info ", "DEFAULT"}

InitClassify ==
    /\ InitLog /\ InitCache /\ InitBatch /\ InitGen /\ InitLoops
    /\ InitRng /\ InitWait /\ InitRace
    /\ transport = "coap"
    /\ temp \in TempRange
    /\ sevOut = <<>>
    /\ sevIn \in SeverityInputs
    /\ levelOut = <<>>
    /\ msgOut = <<>>
    /\ shownOut = <<>>

\* severityStr := tempToSeverityString(m.TempC) (handlelogs.go:273)
ClassifyTemp ==
    /\ sevOut = <<>>
    /\ sevOut' = <<tempToSeverityString(temp)>>
    /\ UNCHANGED <<temp, sevIn, levelOut, msgOut, shownOut>>

\* tempToMessage(m.TempC), the message of the record (handlelogs.go:276)
MessageOfTemp ==
    /\ msgOut = <<>>
    /\ msgOut' = <<tempToMessage(temp)>>
    /\ UNCHANGED <<temp, sevOut, sevIn, levelOut, shownOut>>

\* mapSeverityToLevel(def.Severity) (handlelogs.go:131)
MapSeverity ==
    /\ levelOut = <<>>
    /\ levelOut' = <<mapSeverityToLevel(sevIn)>>
    /\ UNCHANGED <<temp, sevOut, sevIn, msgOut, shownOut>>

\* The handler writes the record: replacer turns its level into the severity
\* string (log.go:57-80, installed as ReplaceAttr at part_004:84-87).
ReplaceLevel ==
    /\ levelOut # <<>>
    /\ shownOut = <<>>
    /\ shownOut' = <<replacer(levelOut[1])>>
    /\ UNCHANGED <<temp, sevOut, sevIn, levelOut, msgOut>>

NextClassify ==
    \/ ClassifyTemp /\ UNCHANGED outsideCalc
    \/ MessageOfTemp /\ UNCHANGED outsideCalc
    \/ MapSeverity /\ UNCHANGED outsideCalc
    \/ ReplaceLevel /\ UNCHANGED outsideCalc

SpecClassify == InitClassify /\ [][NextClassify]_vars

(***************************************************************************)
(* Specification of the metric generator                                   *)
(***************************************************************************)

\* The MetricSender of the CoAP client, or that of the HTTP client with one of
\* the device configurations.
InitDevice ==
    /\ InitLog /\ InitCache /\ InitBatch /\ InitCalc /\ InitLoops
    /\ transport \in Transports
    /\ now = 0
    /\ config \in IF transport = "coap" THEN {ZeroConfig} ELSE DeviceConfigs
    /\ anomalyStartTime = 0
    /\ anomalyDuration = 0
    /\ anomalyHoldDuration = 0
    /\ anomalyActive = FALSE
    /\ baseTemp = 0
    /\ gpc = "idle"
    /\ generated = <<>>
    /\ sampleElapsed = 0 - 1
    /\ triggerDraw = <<>>
    /\ drawn = [temp |-> <<>>, fields |-> <<>>]
    /\ callTemp = <<>>
    /\ callRead = NoRead

InitSender == InitDevice /\ InitRng /\ InitWait /\ InitRace

\* One MetricSender as runMetricSenders drives it: the SendMetric calls of
\* successive ticks overlap, each taking its steps one access at a time,
\* while time passes.
NextSender ==
    \/ ClockTick /\ UNCHANGED raceVars /\ UNCHANGED outsideRace
    \/ FollowedBegins /\ UNCHANGED outsideRace
    \/ \E z \in TriggerDraws :
          TriggerDraw(z) /\ UNCHANGED raceVars /\ UNCHANGED outsideRace
    \/ StartAnomalyNow /\ UNCHANGED raceVars /\ UNCHANGED outsideRace
    \/ \E b \in BaseTemps :
          StartAnomalyStep(b) /\ UNCHANGED raceVars /\ UNCHANGED outsideRace
    \/ GenReadActive /\ UNCHANGED raceVars /\ UNCHANGED outsideRace
    \/ GenReadStart /\ UNCHANGED raceVars /\ UNCHANGED outsideRace
    \/ GenSince /\ UNCHANGED raceVars /\ UNCHANGED outsideRace
    \/ GenReadDuration /\ UNCHANGED raceVars /\ UNCHANGED outsideRace
    \/ GenReadHold /\ UNCHANGED raceVars /\ UNCHANGED outsideRace
    \/ GenClearFlag /\ UNCHANGED raceVars /\ UNCHANGED outsideRace
    \/ \E zt \in ZScores :
          GenIdleTemp(zt) /\ UNCHANGED raceVars /\ UNCHANGED outsideRace
    \/ GenRampTest /\ UNCHANGED raceVars /\ UNCHANGED outsideRace
    \/ GenProgress /\ UNCHANGED raceVars /\ UNCHANGED outsideRace
    \/ GenReadBase /\ UNCHANGED raceVars /\ UNCHANGED outsideRace
    \/ \E first \in BOOLEAN :
          GenRamp(first) /\ UNCHANGED raceVars /\ UNCHANGED outsideRace
    \/ \E zs \in FieldDrawTuples :
          GenerateLiteral(zs) /\ UNCHANGED raceVars /\ UNCHANGED outsideRace
    \/ \E ok \in BOOLEAN :
          SendMetricPost(ok) /\ UNCHANGED raceVars /\ UNCHANGED outsideRace
    \/ OtherBegins /\ UNCHANGED outsideRace
    \/ OtherCheck /\ UNCHANGED outsideRace
    \/ \E z \in TriggerDraws : OtherDraw(z) /\ UNCHANGED outsideRace
    \/ OtherStartAnomalyNow /\ UNCHANGED outsideRace
    \/ \E b \in BaseTemps : OtherStartAnomalyStep(b) /\ UNCHANGED outsideRace
    \/ OtherReadActive /\ UNCHANGED outsideRace
    \/ OtherReadStart /\ UNCHANGED outsideRace
    \/ OtherSince /\ UNCHANGED outsideRace
    \/ OtherReadDuration /\ UNCHANGED outsideRace
    \/ OtherReadHold /\ UNCHANGED outsideRace
    \/ OtherClearFlag /\ UNCHANGED outsideRace

SpecSender == InitSender /\ [][NextSender]_vars

\* A seeded run: the draws of the calls are the values of the source, which
\* the other SendMetric goroutines of the process draw from as well.
InitReplay ==
    /\ InitDevice
    /\ seed \in Seeds
    /\ rngPos = 0
    /\ otherDraws = 0
    /\ NoCallLocals
    /\ InitWait /\ InitRace

\* The minutes a seeded run lasts.
MaxReplayMinutes == 8

\* The clock of a seeded run advances, minute by minute, up to the end of
\* the run.
ReplayClockTick ==
    /\ now + Minute <= MaxReplayMinutes * Minute
    /\ now' = now + Minute
    /\ UNCHANGED <<config, anomalyFields, gpc, callLocals>>

NextReplay ==
    \/ ReplayClockTick /\ UNCHANGED raceVars /\ UNCHANGED outsideRace
    \/ FollowedBegins /\ UNCHANGED outsideRace
    \/ SeededTriggerDraw /\ UNCHANGED raceVars /\ UNCHANGED outsideCalls
    \/ StartAnomalyNow /\ UNCHANGED raceVars /\ UNCHANGED outsideRace
    \/ \E b \in BaseTemps :
          StartAnomalyStep(b) /\ UNCHANGED raceVars /\ UNCHANGED outsideRace
    \/ GenReadActive /\ UNCHANGED raceVars /\ UNCHANGED outsideRace
    \/ GenReadStart /\ UNCHANGED raceVars /\ UNCHANGED outsideRace
    \/ GenSince /\ UNCHANGED raceVars /\ UNCHANGED outsideRace
    \/ GenReadDuration /\ UNCHANGED raceVars /\ UNCHANGED outsideRace
    \/ GenReadHold /\ UNCHANGED raceVars /\ UNCHANGED outsideRace
    \/ GenClearFlag /\ UNCHANGED raceVars /\ UNCHANGED outsideRace
    \/ SeededIdleTemp /\ UNCHANGED raceVars /\ UNCHANGED outsideCalls
    \/ GenRampTest /\ UNCHANGED raceVars /\ UNCHANGED outsideRace
    \/ GenProgress /\ UNCHANGED raceVars /\ UNCHANGED outsideRace
    \/ GenReadBase /\ UNCHANGED raceVars /\ UNCHANGED outsideRace
    \/ \E first \in BOOLEAN :
          GenRamp(first) /\ UNCHANGED raceVars /\ UNCHANGED outsideRace
    \/ SeededStamp /\ UNCHANGED raceVars /\ UNCHANGED outsideCalls
    \/ SeededFieldDraw /\ UNCHANGED raceVars /\ UNCHANGED outsideCalls
    \/ \E ok \in BOOLEAN :
          SendMetricPost(ok) /\ UNCHANGED raceVars /\ UNCHANGED outsideRace
    \/ OtherSenderDraws /\ UNCHANGED genVars /\ UNCHANGED raceVars
          /\ UNCHANGED outsideCalls
    \/ OtherBegins /\ UNCHANGED outsideRace
    \/ OtherCheck /\ UNCHANGED outsideRace
    \/ SeededOtherDraw /\ UNCHANGED outsideCalls
    \/ OtherStartAnomalyNow /\ UNCHANGED outsideRace
    \/ \E b \in BaseTemps : OtherStartAnomalyStep(b) /\ UNCHANGED outsideRace
    \/ OtherReadActive /\ UNCHANGED outsideRace
    \/ OtherReadStart /\ UNCHANGED outsideRace
    \/ OtherSince /\ UNCHANGED outsideRace
    \/ OtherReadDuration /\ UNCHANGED outsideRace
    \/ OtherReadHold /\ UNCHANGED outsideRace
    \/ OtherClearFlag /\ UNCHANGED outsideRace

SpecReplay == InitReplay /\ [][NextReplay]_vars

(***************************************************************************)
(* Specification of the event generator's wait                             *)
(***************************************************************************)

\* One generator with any of the ranges.
InitInterval ==
    /\ InitLog /\ InitCache /\ InitBatch /\ InitCalc /\ InitGen /\ InitLoops
    /\ InitRng /\ InitRace
    /\ transport = "http"
    /\ evConfig \in IntervalRanges
    /\ evpc = "compute"
    /\ evWait = <<>>
    /\ evRounds = 0

NextInterval ==
    \/ \E r \in 0..MaxInterval : ChooseInterval(r) /\ UNCHANGED outsideWait
    \/ WaitOver /\ UNCHANGED outsideWait
    \/ WaitCancelled /\ UNCHANGED outsideWait

SpecInterval == InitInterval /\ [][NextInterval]_vars

(***************************************************************************)
(* Specification of the periodic loops                                     *)
(***************************************************************************)

\* Whether the process is running.
Alive == ~exited

\* The two loops and the event generators of two devices, with the tickers,
\* the SendMetric goroutines, the shutdown signal and main.
NextLoops ==
    \/ Alive /\ Cancel /\ UNCHANGED outsideLoops
    \/ MainReturn /\ UNCHANGED outsideLoops
    \/ Alive /\ LogTickerFires /\ UNCHANGED outsideLoops
    \/ Alive /\ MetricTickerFires /\ UNCHANGED outsideLoops
    \/ Alive /\ LogLoopStop /\ UNCHANGED outsideLoops
    \/ Alive /\ LogLoopTick /\ UNCHANGED outsideLoops
    \/ \E d \in DeviceIds : Alive /\ LogLoopCall(d) /\ UNCHANGED outsideLoops
    \/ \E ok \in BOOLEAN :
          Alive /\ LogLoopCallReturns(ok) /\ UNCHANGED outsideLoops
    \/ Alive /\ LogLoopRangeEnd /\ UNCHANGED outsideLoops
    \/ Alive /\ MetricLoopStop /\ UNCHANGED outsideLoops
    \/ Alive /\ MetricLoopTick /\ UNCHANGED outsideLoops
    \/ \E d \in DeviceIds : Alive /\ MetricLoopGo(d) /\ UNCHANGED outsideLoops
    \/ Alive /\ MetricLoopRangeEnd /\ UNCHANGED outsideLoops
    \/ \E d \in DeviceIds :
          Alive /\ SendMetricGenerated(d) /\ UNCHANGED outsideLoops
    \/ \E d \in DeviceIds, ok \in BOOLEAN :
          Alive /\ SendMetricReturns(d, ok) /\ UNCHANGED outsideLoops
    \/ \E d \in DeviceIds : Alive /\ EventTimerFires(d) /\ UNCHANGED outsideLoops
    \/ \E d \in DeviceIds : Alive /\ EventGenAppend(d) /\ UNCHANGED outsideLoops
    \/ \E d \in DeviceIds : Alive /\ EventGenStop(d) /\ UNCHANGED outsideLoops

SpecLoops == Init /\ [][NextLoops]_vars

\* The same with fair scheduling of the periodic tasks: while the process
\* runs, each loop and each event generator that can take a step eventually
\* takes one, and a SendBatch call in progress returns.  Nothing is assumed of
\* the tickers, of the shutdown signal or of main.
SpecLoopsFair ==
    /\ Init
    /\ [][NextLoops]_vars
    /\ WF_loopVars(Alive /\ (LogLoopStop \/ LogLoopTick \/ LogLoopRangeEnd
                         \/ \E d \in DeviceIds : LogLoopCall(d)))
    /\ WF_loopVars(\E ok \in BOOLEAN : Alive /\ LogLoopCallReturns(ok))
    /\ WF_loopVars(Alive /\ (MetricLoopStop \/ MetricLoopTick \/ MetricLoopRangeEnd
                         \/ \E d \in DeviceIds : MetricLoopGo(d)))
    /\ \A d \in DeviceIds :
          WF_loopVars(Alive /\ (EventGenStop(d) \/ EventGenAppend(d)))

(***************************************************************************)
(* Properties of the log buffer                                            *)
(***************************************************************************)

RECURSIVE Flatten(_)
Flatten(ss) == IF ss = <<>> THEN <<>> ELSE Head(ss) \o Flatten(Tail(ss))

\* The last n elements of s.
LastN(s, n) == SubSeq(s, Len(s) - n + 1, Len(s))

IsPrefix(p, s) == Len(p) <= Len(s) /\ p = SubSeq(s, 1, Len(p))

\* Every entry handed to Send so far, in drain order.
HandedFlat == Flatten(handed)

InSend == {t \in Drainers : pc[t] = "send"}

\* C1: whenever the mutex is free the cache holds at most 200 entries, and
\* once more than 200 entries were appended with no drain in between it is
\* exactly the 200 most recently appended entries, in append order.
C1_BoundedKeepsNewest ==
    cacheMutex = "free" =>
        /\ Len(logCache) <= LogCacheCap
        /\ sinceDrain > LogCacheCap =>
               logCache = LastN(AppendedSeq, LogCacheCap)

\* C1 witness: the cache overflowed after a drain, and the mutex is free.
C1_Witness ==
    /\ cacheMutex = "free"
    /\ sinceDrain > LogCacheCap
    /\ handed # <<>>
    /\ evicted # <<>>
    /\ Len(logCache) = LogCacheCap

\* The entries handed to Send are appended entries, in append order.
C2_Ordered ==
    /\ \A i \in 1..Len(HandedFlat) :
          /\ HandedFlat[i][2] \in 1..appended
          /\ HandedFlat[i] = AppendedSeq[HandedFlat[i][2]]
    /\ \A i \in 1..(Len(HandedFlat) - 1) :
          HandedFlat[i][2] < HandedFlat[i + 1][2]

\* A drain hands to Send a prefix of the cache as it is at the drain.
C2_DrainStep ==
    \A t \in Drainers :
        (pc[t] = "sb_locked" /\ pc'[t] = "send") =>
            /\ handed' = Append(handed, entries'[t])
            /\ IsPrefix(entries'[t], logCache)

\* C2: drain order equals append order: the concatenation of the batches
\* handed to Send by successive drains is a subsequence of the appended
\* entries in the same order, and each batch is a prefix of the cache at
\* the moment of its drain.
C2_DrainOrderIsAppendOrder == []C2_Ordered /\ [][C2_DrainStep]_vars

\* C2 witness: two drains of two entries each, with appends in between.
C2_Witness ==
    /\ Len(handed) = 2
    /\ Len(handed[1]) = 2
    /\ Len(handed[2]) = 2
    /\ handed[2][1][2] > 3
    /\ evicted # <<>>

\* C3: no appended entry is handed to Send by two drains (or twice by one).
C3_AtMostOnce ==
    \A i, j \in 1..Len(HandedFlat) : i # j => HandedFlat[i] # HandedFlat[j]

\* C3 witness: two drains are inside Send at the same time, each with a
\* batch, while an AddLog is in its critical section.
C3_Witness ==
    /\ InSend = Drainers
    /\ \A t \in Drainers : entries[t] # <<>>
    /\ pc[Gen] = "al_appended"

\* Every Send call made so far got a non-empty batch, and every finished
\* Send call made exactly one network submission.
C4_SendCalls ==
    /\ \A i \in 1..Len(handed) : handed[i] # <<>>
    /\ posts + Cardinality(InSend) = Len(handed)

\* The step SendBatch takes with the lock held: on an empty cache it returns
\* without a Send call; otherwise it hands the min(n, batchSize) oldest
\* entries to Send and leaves the others in place.
C4_DrainStep ==
    \A t \in Drainers :
        (pc[t] = "sb_locked" /\ pc'[t] # "sb_locked") =>
            LET n == Len(logCache)
                k == Min(n, batchSize[t])
            IN  IF n = 0
                THEN /\ pc'[t] = "idle"
                     /\ ret' = "nil"
                     /\ handed' = handed
                     /\ posts' = posts
                     /\ logCache' = logCache
                ELSE /\ batchSize[t] >= 1
                     /\ pc'[t] = "send"
                     /\ entries'[t] = SubSeq(logCache, 1, k)
                     /\ handed' = Append(handed, SubSeq(logCache, 1, k))
                     /\ logCache' = SubSeq(logCache, k + 1, n)

\* C4: SendBatch(batchSize >= 1) on n entries removes and hands to Send
\* exactly the min(n, batchSize) oldest, leaves the rest in order, and on
\* n = 0 returns without calling Send and without network submission.
C4_DrainsOldestMin == []C4_SendCalls /\ [][C4_DrainStep]_vars

\* C4 witness: a SendBatch returned on the empty cache and a later one took
\* a full batch out of a longer cache.
C4_Witness ==
    /\ drains = 2
    /\ Len(handed) = 1
    /\ pc["s1"] = "idle"
    /\ pc["s2"] = "send"
    /\ Len(entries["s2"]) = 2
    /\ batchSize["s2"] = 2
    /\ ret = "nil"
    /\ logCache # <<>>

\* C5 as stated: in every state where a SendBatch is inside Send the mutex
\* is free.
C5_MutexFree == InSend # {} => cacheMutex = "free"

\* C5: the mutex is never held across a submission: whoever holds it is
\* between Lock and Unlock of AddLog or of the copy-out of SendBatch, never
\* inside Send; so in every state where a SendBatch is inside Send, an AddLog
\* finds the mutex free as soon as no other AddLog or copy-out is under way,
\* whether the submission is blocked or failing.
C5_SendOutsideLock ==
    /\ \A t \in Drainers : pc[t] = "send" => cacheMutex # t
    /\ cacheMutex = Gen => pc[Gen] \in {"al_locked", "al_appended"}
    /\ \A t \in Drainers : cacheMutex = t => pc[t] = "sb_locked"
    /\ (/\ InSend # {}
        /\ pc[Gen] = "idle"
        /\ appended < MaxAppend
        /\ \A t \in Drainers : pc[t] # "sb_locked")
       => ENABLED AddLogLock

\* C5 witness: an AddLog holds the mutex while a failing submission of
\* another batch is still in progress after an earlier one failed.
C5_Witness ==
    /\ pc["s1"] = "send"
    /\ cacheMutex = Gen
    /\ ret = "err"

(***************************************************************************)
(* Properties of the metric cache                                          *)
(***************************************************************************)

\* Workers between cacheMu.Lock() and cacheMu.Unlock().
Writing == {h \in Workers : hpc[h] \in {"locked", "writing"}}

NumericFields == MetricFields \ {"DeviceID", "Timestamp"}

\* The values the current / last callback run reported with label k.
ValuesSeen(k) == {cbObs[i].value : i \in {j \in 1..Len(cbObs) : cbObs[j].device_id = k}}

ValuesOf(m) == {m[f] : f \in NumericFields}

RunFinished == cpc = "idle" /\ cbResult = "nil"

\* C6: last-write-wins: outside a write to d, the entry of d is exactly the
\* sample of the last completed put for d, whatever was put for other
\* devices; and a callback run reports for d the sample of the last put for
\* d completed before the run began.
C6_LastWriteWins ==
    /\ \A d \in DeviceIds :
          (\A h \in Writing : hm[h].DeviceID # d) =>
              /\ d \in DOMAIN globalMetricCache <=> d \in DOMAIN lastPut
              /\ d \in DOMAIN lastPut => globalMetricCache[d] = lastPut[d]
    /\ \A d \in DeviceIds :
          putCount[d] > 0 => /\ d \in DOMAIN lastPut
                             /\ lastPut[d] \in Samples
                             /\ lastPut[d].DeviceID = d
    /\ \A k \in cbVisited :
          /\ k \in DOMAIN cbPuts
          /\ ValuesSeen(k) = ValuesOf(cbPuts[k])

\* C6 witness: temp 90 then temp 50 were put for d1, a sample was put for
\* d2, and a callback run that began afterwards has reported d1.
C6_Witness ==
    /\ putCount["d1"] = 2
    /\ putCount["d2"] = 1
    /\ RunFinished
    /\ "d1" \in cbVisited
    /\ cbPuts["d1"].TempC = 50
    /\ \E i \in 1..Len(records) : records[i].value = 90 /\ records[i].device_id = "d1"

\* C7: writers exclude each other and the iterating callback; every entry a
\* run reports is one whole put sample; a finished run has reported exactly
\* the map produced by the puts completed, in order, when it began.
C7_Serializable ==
    /\ Cardinality(Writing) <= 1
    /\ Writing # {} => cpc # "iter"
    /\ \A k \in cbVisited :
          \E m \in Samples : m.DeviceID = k /\ ValuesSeen(k) = ValuesOf(m)
    /\ cpc = "iter" => lastPut = cbPuts
    /\ RunFinished =>
          /\ cbVisited = DOMAIN cbPuts
          /\ \A k \in cbVisited : ValuesSeen(k) = ValuesOf(cbPuts[k])
          /\ Len(cbObs) = 6 * Cardinality(DOMAIN cbPuts)

\* C7 witness: the callback has reported the entry of d1 and still holds
\* the read lock while both workers wait in updateMetricCache for the lock.
C7_Witness ==
    /\ cpc = "iter"
    /\ cbVisited = {"d1"}
    /\ Len(cbObs) = 6
    /\ \A h \in Workers : hpc[h] = "put" /\ hm[h] \in Samples

\* While a run iterates, the map is what it was when the run began; a run
\* over the empty map has reported nothing and returned nil.
C8_Unchanged ==
    /\ cpc = "iter" => globalMetricCache = cbStart
    /\ (RunFinished /\ cbStart = EmptyCache) => cbObs = <<>>
    /\ (cbRuns > 0 /\ cpc = "idle") => cbResult = "nil"

\* No step of the callback changes the map.
C8_CallbackStep ==
    (cpc # cpc' \/ cbVisited # cbVisited') => globalMetricCache' = globalMetricCache

\* C8: the export callback leaves globalMetricCache unchanged, and on the
\* empty cache it reports zero observations and returns without error.
C8_CallbackReadOnly == []C8_Unchanged /\ [][C8_CallbackStep]_vars

\* C8 witness: after a run over the empty map, a second run has iterated
\* over two entries and is about to return.
C8_Witness ==
    /\ cbEmptyRuns = 1
    /\ cbRuns = 2
    /\ cpc = "iter"
    /\ cbVisited = {"d1", "d2"}
    /\ Len(cbObs) = 12

\* The field each gauge reports (instrument names of metric.go:26-61 and
\* the cbor tags of handlelogs.go:203-213).
FieldOfGauge ==
    [cpu_percent |-> "CPUPercent", temperature_celsius |-> "TempC",
     memory_used_mb |-> "MemUsedMB", disk_usage_percent |-> "DiskUsagePercent",
     disk_read_mbps |-> "DiskReadMBps", disk_write_mbps |-> "DiskWriteMBps"]

\* C9: a run reports, for every entry of the cache, exactly one observation
\* per gauge, with the entry's value of the gauge's field and the entry's
\* device_id as label; no entry is omitted and nothing else is reported.
C9_SixGaugesPerEntry ==
    /\ Len(cbObs) = 6 * Cardinality(cbVisited)
    /\ \A k \in cbVisited, g \in DOMAIN FieldOfGauge :
          /\ k \in DOMAIN cbStart
          /\ Cardinality({i \in 1..Len(cbObs) :
                 /\ cbObs[i].gauge = g
                 /\ cbObs[i].device_id = cbStart[k].DeviceID}) = 1
          /\ \A i \in 1..Len(cbObs) :
                (cbObs[i].gauge = g /\ cbObs[i].device_id = cbStart[k].DeviceID)
                    => cbObs[i].value = cbStart[k][FieldOfGauge[g]]
    /\ \A i \in 1..Len(cbObs) :
          \E k \in DOMAIN cbStart : cbObs[i].device_id = cbStart[k].DeviceID
    /\ RunFinished => cbVisited = DOMAIN cbStart

\* C9 witness: a finished run over a cache with two devices.
C9_Witness ==
    /\ RunFinished
    /\ DOMAIN cbStart = {"d1", "d2"}
    /\ Len(cbObs) = 12
    /\ cbStart["d1"].TempC # cbStart["d2"].TempC

\* The map has an entry for exactly the devices an ingestion wrote, each
\* entry one Metrics value.
C10_OnePerIngestedDevice ==
    /\ \A d \in DeviceIds :
          d \in DOMAIN globalMetricCache <=>
              \/ putCount[d] > 0
              \/ \E h \in Workers : hpc[h] = "writing" /\ hm[h].DeviceID = d
    /\ DOMAIN globalMetricCache \subseteq DeviceIds
    /\ \A d \in DOMAIN globalMetricCache :
          DOMAIN globalMetricCache[d] = MetricFields

\* No step deletes an entry, and an entry is created only by the write of
\* a decoded submission for its device.
C10_Step ==
    /\ DOMAIN globalMetricCache \subseteq DOMAIN globalMetricCache'
    /\ DOMAIN globalMetricCache' # DOMAIN globalMetricCache =>
          \E h \in Workers :
              /\ hpc[h] = "locked"
              /\ hm[h] \in Samples
              /\ DOMAIN globalMetricCache' =
                     DOMAIN globalMetricCache \cup {hm[h].DeviceID}

\* C10: an entry is created on the first successful metric ingestion for a
\* device, overwritten on each later one and never deleted: the set of
\* device ids in the cache only grows, with one sample per device.
C10_GrowOnly == []C10_OnePerIngestedDevice /\ [][C10_Step]_vars

\* C10 witness: d1 was ingested twice, a malformed request was refused, an
\* export run has happened, and the map holds the one entry of d1.
C10_Witness ==
    /\ putCount["d1"] = 2
    /\ DOMAIN globalMetricCache = {"d1"}
    /\ globalMetricCache["d1"].TempC = 50
    /\ cbRuns >= 1
    /\ \E h \in Workers : hresp[h] = BadRequestStatus(transport)

(***************************************************************************)
(* Properties of the submission endpoints                                  *)
(***************************************************************************)

\* The keys of the event catalog.
CatalogIds == 1..27

\* The batch-log worker has answered its request with the success status
\* and is about to return.
BatchServed == bpc = "done" /\ bresp = BatchLogStatus(transport)

\* The entries of the current batch the loop has handled.
HandledEntries == SubSeq(batch.Logs, 1, bi - 1)

\* An entry for which the catalog has a record: a pair whose first element
\* is a key of the catalog.
IsCatalogEntry(e) == Len(e) = 2 /\ e[1] \in CatalogIds

RECURSIVE RecordsFor(_, _)
RecordsFor(dev, es) ==
    IF es = <<>> THEN <<>>
    ELSE IF IsCatalogEntry(Head(es))
         THEN <<[level |-> mapSeverityToLevel(eventDefinitions[Head(es)[1]].Severity),
                 msg |-> eventDefinitions[Head(es)[1]].Message,
                 device_id |-> dev,
                 timestamp |-> FormatRFC3339(Head(es)[2]),
                 type |-> "devicelog"]>> \o RecordsFor(dev, Tail(es))
         ELSE RecordsFor(dev, Tail(es))

\* C11: for a decodable batch the handler answers success, and the records
\* it has emitted are exactly those of the handled entries that are pairs
\* with a catalog event id, in batch order, with the batch's device_id and
\* the catalog's severity and message; every entry is handled.
C11_OneRecordPerCatalogEntry ==
    /\ bpc = "loop" => bOut = RecordsFor(batch.DeviceID, HandledEntries)
    /\ BatchServed =>
          /\ bi = Len(batch.Logs) + 1
          /\ bOut = RecordsFor(batch.DeviceID, batch.Logs)
          /\ bSkipped + Len(bOut) = Len(batch.Logs)

\* C12: an entry whose event id is not a key of the catalog is skipped: when
\* no handled entry has an id in 1..27, no record has been emitted, and the
\* request is answered with success.
C12_UnknownIdSkipped ==
    /\ (\A i \in 1..Len(HandledEntries) : HandledEntries[i][1] \notin CatalogIds)
          => bOut = <<>>
    /\ bpc = "done" => BatchServed

\* A worker whose request was refused has returned without handling an
\* entry or emitting a record.
C13_Refused ==
    /\ bresp = BadRequestStatus(transport) =>
          bpc = "idle" /\ bi = 1 /\ bOut = <<>> /\ bSkipped = 0
    /\ \A h \in Workers : hresp[h] = BadRequestStatus(transport) => hpc[h] = "idle"

\* The step that refuses a request changes neither the cache nor the
\* records emitted, and a worker that has been refused does nothing more
\* for that request.
C13_RefuseStep ==
    /\ (bRequests' # bRequests /\ bresp' = BadRequestStatus(transport)) =>
          /\ globalMetricCache' = globalMetricCache
          /\ records' = records
          /\ bOut' = <<>>
    /\ \A h \in Workers :
          (requests' # requests /\ hresp'[h] = BadRequestStatus(transport)) =>
              /\ globalMetricCache' = globalMetricCache
              /\ records' = records
              /\ lastPut' = lastPut /\ putCount' = putCount
    /\ \A h \in Workers :
          (hresp[h] = BadRequestStatus(transport) /\ hresp'[h] = hresp[h]
             /\ requests' = requests) =>
              (hpc'[h] = hpc[h] /\ hm'[h] = hm[h])

\* C13: a body that cannot be decoded, on /batchLog or /batchMetric, gets
\* the bad-request status and nothing else: no entry is handled, no device
\* log record is emitted and globalMetricCache stays what it was.
C13_MalformedRefused == []C13_Refused /\ [][C13_RefuseStep]_vars

\* C13 witness: both endpoints have refused a request after the cache got
\* an entry, which is still there.
C13_Witness ==
    /\ bresp = BadRequestStatus(transport)
    /\ hresp["h1"] = BadRequestStatus(transport)
    /\ "d1" \in DOMAIN globalMetricCache
    /\ globalMetricCache["d1"] = ServerSample
    /\ Len(records) = 1

\* What a request has done at each position of the handler: the put comes
\* before the record, the record before the success status; and once the
\* success status is set the device's entry is the request's sample unless a
\* later put for the device has completed.
C14_Progress ==
    \A h \in Workers :
       /\ hpc[h] \in {"put", "locked", "writing"} =>
             hdone[h].puts = 0 /\ hdone[h].logs = 0 /\ hresp[h] = "none"
       /\ hpc[h] = "log" =>
             hdone[h].puts = 1 /\ hdone[h].logs = 0 /\ hresp[h] = "none"
       /\ hpc[h] = "respond" =>
             hdone[h].puts = 1 /\ hdone[h].logs = 1 /\ hresp[h] = "none"
       /\ hresp[h] = MetricStatus(transport) =>
             /\ hpc[h] = "idle" /\ hdone[h].puts = 1 /\ hdone[h].logs = 1
             /\ LET d == hm[h].DeviceID
                IN  /\ d \in DOMAIN lastPut
                    /\ putCount[d] >= 1
                    /\ putCount[d] = 1 => lastPut[d] = hm[h]
                    /\ (\A w \in Workers :
                           hpc[w] \in {"locked", "writing"} => hm[w].DeviceID # d)
                         => globalMetricCache[d] = lastPut[d]

\* The step that completes a request's put leaves the request's sample as
\* the device's entry, and the entry of a device changes afterwards only by
\* the completion of another put for that device.
C14_PutStep ==
    /\ \A h \in Workers :
          (hpc[h] = "writing" /\ hpc'[h] = "log") =>
              /\ globalMetricCache'[hm[h].DeviceID] = hm[h]
              /\ lastPut'[hm[h].DeviceID] = hm[h]
              /\ putCount'[hm[h].DeviceID] = putCount[hm[h].DeviceID] + 1
    /\ \A d \in DOMAIN lastPut :
          lastPut'[d] # lastPut[d] =>
              \E w \in Workers :
                  /\ hpc[w] = "writing" /\ hpc'[w] = "log"
                  /\ hm[w].DeviceID = d /\ lastPut'[d] = hm[w]

\* Every record is emitted by a request that has completed its put, and
\* carries the level and message of the sample's temperature.
C14_EmitStep ==
    records' # records =>
        \E h \in Workers :
            /\ hpc[h] = "log" /\ hpc'[h] = "respond"
            /\ Len(records') = Len(records) + 1
            /\ SubSeq(records', 1, Len(records)) = records
            /\ LET r == records'[Len(records')]
               IN  /\ r.device_id = hm[h].DeviceID
                   /\ r.value = hm[h].TempC
                   /\ r.level = mapSeverityToLevel(tempToSeverityString(hm[h].TempC))
                   /\ r.type = "devicemetric"

\* C14: a decodable metric submission is put into the cache once, then one
\* log record with the severity of its temperature is emitted, then the
\* success status is set; after the success status the cache holds for the
\* device that sample or one of a later put.
C14_PutLogRespond == []C14_Progress /\ [][C14_PutStep /\ C14_EmitStep]_vars

\* C14 witness: both workers have answered success for d1, h1 for the hot
\* sample and h2, whose put came later, for the cool one, which the cache
\* holds; the two records were emitted in the other order.
C14_Witness ==
    /\ \A h \in Workers : hresp[h] = MetricStatus(transport)
    /\ hm["h1"] = Sample("d1", 1) /\ hm["h2"] = Sample("d1", 2)
    /\ putCount["d1"] = 2
    /\ globalMetricCache["d1"] = Sample("d1", 2)
    /\ Len(records) = 2
    /\ records[1].value = 50 /\ records[2].value = 90

\* The "created" and "changed" statuses of the two transports.
CreatedOrChanged == {"2.01 Created", "2.04 Changed", "201 Created"}

\* The success statuses and the bad-request statuses of the two transports.
SuccessStatuses == {"2.01 Created", "2.04 Changed", "200 OK", "201 Created",
                    "202 Accepted", "204 No Content"}
BadRequestStatuses == {"4.00 BadRequest", "400 Bad Request"}

\* The metric worker has answered its request after the put and the record.
MetricServed(h) == hpc[h] = "idle" /\ hresp[h] # "none" /\ hdone[h].logs = 1

\* The metric worker has answered a request it could not decode.
MetricRefused(h) == hpc[h] = "idle" /\ hresp[h] # "none" /\ hdone[h].logs = 0

\* C16 as stated: on both transports a served /batchLog and a served
\* /batchMetric request get a "created/changed" status, and a malformed
\* body a "bad request" status.
C16_CreatedOrChanged ==
    /\ bpc = "done" => bresp \in CreatedOrChanged
    /\ MetricServed("h1") => hresp["h1"] \in CreatedOrChanged
    /\ MetricRefused("h1") => hresp["h1"] \in BadRequestStatuses

\* On both transports a served request has a success status and a refused
\* one a bad-request status: Created and Changed on CoAP, OK and Accepted
\* on HTTP.
C16_Statuses ==
    /\ bpc = "done" =>
          /\ bresp \in SuccessStatuses
          /\ bresp = IF transport = "coap" THEN "2.01 Created" ELSE "200 OK"
    /\ MetricServed("h1") =>
          /\ hresp["h1"] \in SuccessStatuses
          /\ hresp["h1"] = IF transport = "coap" THEN "2.04 Changed" ELSE "202 Accepted"
    /\ MetricRefused("h1") => hresp["h1"] \in BadRequestStatuses
    /\ bresp \in {"none"} \cup SuccessStatuses \cup BadRequestStatuses

\* The step that receives a /batchLog body it cannot decode sets a
\* bad-request status, and only that step does.
C16_RefuseStep ==
    /\ (bRequests' # bRequests /\ bpc' = "idle") => bresp' \in BadRequestStatuses
    /\ (bresp' # bresp /\ bresp' \in BadRequestStatuses) =>
          (bRequests' # bRequests /\ bpc' = "idle")

\* C16 (amended): the two endpoints answer alike on both transports up to
\* the status code: success for a served request (2.01 Created and 2.04
\* Changed on CoAP, 200 OK and 202 Accepted on HTTP), bad request for a
\* malformed body.
C16_SameOutcomeClass == []C16_Statuses /\ [][C16_RefuseStep]_vars

\* C16 witness: the HTTP server has answered a /batchMetric request with
\* 202 Accepted and then a /batchLog request with 200 OK.
C16_Witness ==
    /\ transport = "http"
    /\ bpc = "done" /\ bresp = "200 OK"
    /\ MetricServed("h1") /\ hresp["h1"] = "202 Accepted"

(***************************************************************************)
(* Properties of the classification functions                              *)
(***************************************************************************)

\* C15: tempToSeverityString gives INFO below 75, WARNING from 75 to below
\* 85, CRITICAL from 85 to below 95, EMERGENCY from 95 to 100 inclusive, and
\* INFO above 100; so 90 gives CRITICAL.
C15_TemperatureBands ==
    sevOut # <<>> =>
        /\ temp < 75 => sevOut[1] = "INFO"
        /\ (75 <= temp /\ temp < 85) => sevOut[1] = "WARNING"
        /\ (85 <= temp /\ temp < 95) => sevOut[1] = "CRITICAL"
        /\ (95 <= temp /\ temp <= 100) => sevOut[1] = "EMERGENCY"
        /\ temp > 100 => sevOut[1] = "INFO"
        /\ temp = 90 => sevOut[1] = "CRITICAL"

\* C15 witness: the upper boundary 100 has been classified EMERGENCY.
C15_Witness == temp = 100 /\ sevOut = <<"EMERGENCY">>

\* The severity name a string spells when its case is ignored, or "" when it
\* spells none.
NameSpelled(str) ==
    CASE str \in {"DEBUG", "debug", "Debug"} -> "DEBUG"
      [] str \in {"INFO", "info", "Info", "iNFO"} -> "INFO"
      [] str \in {"NOTICE", "notice", "Notice"} -> "NOTICE"
      [] str \in {"WARNING", "warning", "Warning"} -> "WARNING"
      [] str \in {"ERROR", "error", "Error"} -> "ERROR"
      [] str \in {"CRITICAL", "critical", "Critical"} -> "CRITICAL"
      [] str \in {"ALERT", "alert", "Alert", "aLeRt"} -> "ALERT"
      [] str \in {"EMERGENCY", "emergency", "Emergency"} -> "EMERGENCY"
      [] OTHER -> ""

\* The eight severities in ascending order.
SeverityOrder == <<"DEBUG", "INFO", "NOTICE", "WARNING", "ERROR", "CRITICAL",
                   "ALERT", "EMERGENCY">>

\* C17: mapSeverityToLevel is strictly increasing along DEBUG, INFO, NOTICE,
\* WARNING, ERROR, CRITICAL, ALERT, EMERGENCY, so no two severities share a
\* level; a string spelling one of the eight names in any case gets that
\* name's level, and every other string gets the level of INFO.
C17_LevelsOrdered ==
    levelOut # <<>> =>
        /\ \A i \in 1..7 :
              mapSeverityToLevel(SeverityOrder[i]) < mapSeverityToLevel(SeverityOrder[i + 1])
        /\ \A a, b \in SeverityNames :
              a # b => mapSeverityToLevel(a) # mapSeverityToLevel(b)
        /\ NameSpelled(sevIn) # "" =>
              /\ levelOut[1] = mapSeverityToLevel(NameSpelled(sevIn))
              /\ \E i \in 1..8 :
                    /\ SeverityOrder[i] = NameSpelled(sevIn)
                    /\ \A j \in 1..8 :
                          (j < i => mapSeverityToLevel(SeverityOrder[j]) < levelOut[1])
                          /\ (j > i => mapSeverityToLevel(SeverityOrder[j]) > levelOut[1])
        /\ NameSpelled(sevIn) = "" => levelOut[1] = mapSeverityToLevel("INFO")

\* C17 witness: a mixed-case spelling of ALERT has been mapped to a level
\* between those of CRITICAL and EMERGENCY.
C17_Witness ==
    /\ sevIn = "aLeRt"
    /\ levelOut # <<>>
    /\ mapSeverityToLevel("CRITICAL") < levelOut[1]
    /\ levelOut[1] < mapSeverityToLevel("EMERGENCY")

(***************************************************************************)
(* Properties of the metric generator                                      *)
(***************************************************************************)

\* The temperature of a generated sample.
TempOf(m) == IF transport = "coap" THEN m.TempC ELSE m.MCUTempC

\* The value of field f of a generated sample.
FieldOf(m, f) == IF f \in DOMAIN m THEN m[f] ELSE m.ExternalSensors[f]

\* GenerateMetrics has just returned a sample.
JustGenerated == gpc = "post" /\ generated # <<>>

\* Whether temperature t is within the idle range of the client.
InIdleRange(t) ==
    IF transport = "coap" THEN 30 <= t /\ t <= 65 ELSE 20 <= t /\ t <= 70

\* The step of GenerateMetrics that returns the sample (part_002:155-164,
\* part_006:143-155).
ReturnsSample == gpc = "literal" /\ gpc' = "post"

\* The store s.anomalyActive = false (part_002:138, part_006:118), in either
\* of the calls on the MetricSender.
ClearStoreInEitherCall ==
    \/ gpc = "clear" /\ gpc' = "idletemp"
    \/ otherPc = "clear" /\ otherPc' = "idle"

\* More than ramp plus hold has elapsed since the start of the anomaly the
\* sender holds.
PastRampAndHold ==
    now - anomalyStartTime > anomalyDuration + anomalyHoldDuration

\* Where a sample stands when it is returned, by the time the call has read
\* as elapsed since the trigger: up to the ramp duration it is the ramp value
\* of the anomaly the sender holds, no less than the ramp value of any
\* earlier time, the base value when nothing has elapsed and 100 when the
\* whole ramp has; from there up to ramp plus hold it is 100; beyond ramp
\* plus hold it is an idle draw within the idle range.
C18_SampleStep ==
    (ReturnsSample /\ sampleElapsed >= 0) =>
        LET t == TempOf(generated'[1])
            ramp == anomalyDuration
            total == anomalyDuration + anomalyHoldDuration
        IN  /\ sampleElapsed <= ramp =>
                  /\ RampBase <= t /\ t <= 100
                  /\ t = RampTemp(sampleElapsed)
                  /\ \A e \in 0..sampleElapsed : RampTemp(e) <= t
                  /\ sampleElapsed = 0 => t = RampBase
                  /\ sampleElapsed = ramp => t = 100
            /\ (ramp < sampleElapsed /\ sampleElapsed <= total) => t = 100
            /\ sampleElapsed > total => InIdleRange(t) /\ drawn.temp # <<>>

\* The anomaly ends only by the store of GenerateMetrics, made when more than
\* ramp plus hold has elapsed since its start, and a call that found the
\* anomaly active draws an idle temperature only if it has read more than
\* ramp plus hold as elapsed.
C18_LeaveStep ==
    /\ (anomalyActive /\ ~anomalyActive') =>
          ClearStoreInEitherCall /\ PastRampAndHold
    /\ (gpc = "idletemp" /\ gpc' = "literal" /\ sampleElapsed >= 0) =>
          sampleElapsed > anomalyDuration + anomalyHoldDuration

\* C18: after an anomaly is triggered, the samples taken while at most the
\* ramp duration has elapsed never decrease as the elapsed time grows, from
\* the base value at elapsed 0 to 100 at the end of the ramp; the samples
\* taken after the ramp and up to ramp plus hold are 100; the generator
\* leaves the active state, with a clamped idle sample, only on a sample
\* taken strictly after ramp plus hold has elapsed.
C18_Excursion == [][C18_SampleStep /\ C18_LeaveStep]_vars

\* C19: every clamped field of a generated sample is lo when its raw draw is
\* below lo, hi when it is above hi and the draw itself otherwise; so CPU and
\* disk usage are in [0, 100], memory in [0, 4096], disk read and write in
\* [0, 10], and the idle temperature in [30, 65] on the CoAP client and in
\* [20, 70] on the HTTP client.
C19_ClampedRanges ==
    (generated # <<>> /\ callTemp = <<>>) =>
        LET m == generated[1]
        IN  /\ \A f \in DOMAIN drawn.fields :
                  LET v == drawn.fields[f]
                      lo == FieldRange[f][1]
                      hi == FieldRange[f][2]
                      out == FieldOf(m, f)
                  IN  /\ lo <= out /\ out <= hi
                      /\ v < lo => out = lo
                      /\ v > hi => out = hi
                      /\ (lo <= v /\ v <= hi) => out = v
            /\ transport = "coap" =>
                  /\ m.CPUPercent \in 0..100
                  /\ m.DiskUsagePercent \in 0..100
                  /\ m.MemUsedMB \in 0..4096
                  /\ m.DiskReadMBps \in 0..10
                  /\ m.DiskWriteMBps \in 0..10
            /\ drawn.temp # <<>> =>
                  LET v == drawn.temp[1]
                      lo == IF transport = "coap" THEN 30 ELSE 20
                      hi == IF transport = "coap" THEN 65 ELSE 70
                  IN  /\ lo <= TempOf(m) /\ TempOf(m) <= hi
                      /\ v < lo => TempOf(m) = lo
                      /\ v > hi => TempOf(m) = hi
                      /\ (lo <= v /\ v <= hi) => TempOf(m) = v

\* C19 witness: a CoAP sample whose CPU draw was negative and whose idle
\* temperature draw was above 65 has CPU 0 and temperature 65.
C19_Witness ==
    /\ generated # <<>>
    /\ transport = "coap"
    /\ drawn.fields.CPUPercent < 0
    /\ generated[1].CPUPercent = 0
    /\ drawn.temp # <<>>
    /\ drawn.temp[1] > 65
    /\ generated[1].TempC = 65

(***************************************************************************)
(* Properties of the periodic loops                                        *)
(***************************************************************************)

\* runLogSenders can start the action of the sender after the one whose
\* SendBatch is still in progress.
LogLoopDoesNotWait ==
    \A j \in 2..Len(Senders) :
        (logLoop.pc = "call" /\ logLoop.i = j - 1)
            => ENABLED LogLoopCall(Senders[j])

\* runMetricSenders can start the action of the sender it has reached while
\* the SendMetric of the sender before it is still in progress.
MetricLoopDoesNotWait ==
    \A j \in 2..Len(Senders) :
        (/\ metricLoop.pc = "range" /\ metricLoop.i = j
         /\ metricRunning[Senders[j - 1]] > 0)
            => ENABLED MetricLoopGo(Senders[j])

\* C20: in both periodic loops the action of a device is started without
\* waiting for the action of the device before it to complete: while the
\* submission of one device is still in progress, the loop can start the
\* action of the next device of the same tick.
C20_StartedWithoutWaiting == LogLoopDoesNotWait /\ MetricLoopDoesNotWait

\* Every periodic task has reached its return.
AllStopped ==
    /\ logLoop.pc = "stopped"
    /\ metricLoop.pc = "stopped"
    /\ \A d \in DeviceIds : genLoop[d] = "stopped"

\* C21: once the shutdown signal has fired no periodic task does another
\* tick's work: runLogSenders starts no further round of SendBatch calls,
\* runMetricSenders starts no further round of SendMetric calls and no event
\* generator appends another event, even when the tick or the timer was
\* already pending when the signal fired.
C21_NoRoundAfterCancel ==
    [][cancelled =>
          /\ ~(logLoop.pc = "select" /\ logLoop'.pc = "range")
          /\ ~(metricLoop.pc = "select" /\ metricLoop'.pc = "range")
          /\ \A d \in DeviceIds : buffered'[d] <= buffered[d]]_vars

\* C22 as stated: after the shutdown signal the two loops and every event
\* generator eventually reach their return.
C22_AllReturn == cancelled ~> AllStopped

\* C22: after the shutdown signal the two loops and every event generator
\* eventually reach their return, unless the process exits first: under fair
\* scheduling of the loops and with every SendBatch call returning, either
\* all of them have returned or main has.
C22_ReturnUnlessExit == cancelled ~> (AllStopped \/ exited)

\* C22 witness: every periodic task has returned after the signal while main
\* has not yet, with a SendMetric goroutine still in flight.
C22_Witness ==
    /\ cancelled
    /\ AllStopped
    /\ ~exited
    /\ \E d \in DeviceIds : metricRunning[d] > 0

\* main can return as soon as the signal has fired, whatever is in progress.
C25_CanReturn == (cancelled /\ ~exited) => ENABLED MainReturn

\* main's return flushes nothing and waits for nothing.
C25_ReturnStep ==
    (~exited /\ exited') =>
        UNCHANGED <<buffered, logLoop, metricLoop, genLoop, metricRunning,
                    metricGenerating>>

\* Nothing runs once the process has exited.
C25_AfterExit == exited => UNCHANGED loopVars

\* C25: submissions in flight are not waited on: once the shutdown signal
\* has fired main can return without the loops, the event generators or any
\* SendBatch or SendMetric call having returned; its return drains nothing,
\* and the entries then in the buffers are never submitted.
C25_NoJoinNoFlush ==
    []C25_CanReturn /\ [][C25_ReturnStep /\ C25_AfterExit]_vars

\* C25 witness: the process has exited while runLogSenders was inside a
\* SendBatch call, a SendMetric goroutine was in flight, an event generator
\* had not returned and a buffer held an entry.
C25_Witness ==
    /\ exited
    /\ logLoop.pc = "call"
    /\ \E d \in DeviceIds : metricRunning[d] > 0
    /\ \E d \in DeviceIds : genLoop[d] = "select"
    /\ \E d \in DeviceIds : buffered[d] > 0

\* C27: a device's anomaly state is touched by one activity at a time: no
\* two SendMetric invocations of the same sender are in maybeTriggerAnomaly /
\* GenerateMetrics at the same time.
C27_OneInvocationAtATime ==
    \A d \in DeviceIds : metricGenerating[d] <= 1

(***************************************************************************)
(* Properties of the log buffer: failed submissions and conservation       *)
(***************************************************************************)

\* The entries of a sequence, as a set.
EntriesIn(q) == {q[i] : i \in 1..Len(q)}

\* The entries of all the batches handed to Send so far.
HandedEntries == UNION {EntriesIn(handed[i]) : i \in 1..Len(handed)}

\* The number of entries handed to Send so far.
RECURSIVE SumLen(_)
SumLen(qs) == IF qs = <<>> THEN 0 ELSE Len(Head(qs)) + SumLen(Tail(qs))

\* A step in which a SendBatch call returns the error of its submission.
FailedSendStep ==
    \E t \in Drainers :
        pc[t] = "send" /\ pc'[t] = "idle" /\ ret' = "err"

\* No entry handed to Send is in the buffer or in another batch.
C23_NeverAgain ==
    /\ HandedEntries \cap EntriesIn(logCache) = {}
    /\ \A i, j \in 1..Len(handed) :
          i # j => EntriesIn(handed[i]) \cap EntriesIn(handed[j]) = {}

\* A failed submission puts nothing back and leaves its caller free to call
\* SendBatch again.
C23_FailStep ==
    FailedSendStep =>
        /\ logCache' = logCache
        /\ handed' = handed
        /\ \E t \in Drainers : pc[t] = "send" /\ pc'[t] = "idle"
                               /\ entries'[t] = <<>>

\* After a failure the next drain takes the head of the buffer as it then is.
C23_NextDrainStep ==
    (ret = "err" /\ handed' # handed) =>
        \E t \in Drainers :
            /\ pc[t] = "sb_locked"
            /\ handed' = Append(handed, SliceTo(logCache, Min(batchSize[t], Len(logCache))))

\* C23: when the submission of a drained batch fails the drained entries are
\* lost: they are not put back into the buffer and are in no later batch; the
\* caller only gets the error and can call SendBatch again, and the next drain
\* takes whatever the buffer then holds.
C23_FailedBatchLost ==
    []C23_NeverAgain /\ [][C23_FailStep /\ C23_NextDrainStep]_vars

\* C23 witness: a SendBatch call has returned the error of its submission and
\* the next call has drained a second, non-empty batch that shares no entry
\* with the first.
C23_Witness ==
    /\ ret = "err"
    /\ Len(handed) = 2
    /\ handed[1] # <<>> /\ handed[2] # <<>>
    /\ EntriesIn(handed[1]) \cap EntriesIn(handed[2]) = {}
    /\ \E t \in Drainers : pc[t] = "send"
    /\ posts = 1

\* Every appended entry is in exactly one of the buffer, the evicted entries
\* and the batches handed to Send.
C28_Partition ==
    /\ EntriesIn(logCache) \cup EntriesIn(evicted) \cup HandedEntries
          = EntriesIn(AppendedSeq)
    /\ Len(logCache) + Len(evicted) + SumLen(handed) = appended

\* What SendBatch removes from the buffer is what it hands to Send, and only
\* AddLog evicts.
C28_Step ==
    /\ handed' # handed =>
          logCache = handed'[Len(handed')] \o logCache'
    /\ evicted' # evicted =>
          /\ pc[Gen] = "al_appended"
          /\ logCache = SliceFrom(evicted', Len(evicted)) \o logCache'
    /\ (handed' = handed /\ evicted' = evicted /\ appended' = appended) =>
          logCache' = logCache

\* C28: conservation of log entries: after any interleaving of AddLog and
\* SendBatch every entry ever appended is in exactly one of three places:
\* the buffer, the entries evicted by an overflowing append, or one batch
\* handed to Send; SendBatch removes nothing but the batch it hands over and
\* only AddLog evicts.
C28_Conservation == []C28_Partition /\ [][C28_Step]_vars

\* C28 witness: entries have been evicted, a batch has been handed over and
\* the buffer still holds entries.
C28_Witness ==
    /\ evicted # <<>>
    /\ handed # <<>> /\ handed[1] # <<>>
    /\ logCache # <<>>
    /\ Len(logCache) + Len(evicted) + SumLen(handed) = appended


(***************************************************************************)
(* Properties of the generator: the trigger and the frame of an anomaly     *)
(***************************************************************************)

\* The SendMetric call followed has drawn above the threshold.
TriggeredThisCall == triggerDraw # <<>> /\ triggerDraw[1] > 2

\* The step with which the call followed leaves StartAnomaly: its last store
\* (part_002:100, part_006:84).
LeavesStartAnomaly == gpc \in {"active", "base"} /\ gpc' = "generate"

\* The step of GenerateMetrics that sets the temperature of the sample.
SetsTemperature == gpc \in {"idletemp", "ramptest", "base2"} /\ gpc' = "literal"

\* The call that has found the device idle draws z; with z <= 2 it goes on
\* to GenerateMetrics and has changed no anomaly field; with z > 2 it runs
\* StartAnomaly, which stores the time it has read as the start, a ramp of
\* four minutes, a hold of three, the flag and, in the CoAP client, a base
\* within [30, 65].
C26_TriggerStep ==
    /\ (gpc = "draw" /\ gpc' # "draw") =>
          /\ triggerDraw' # <<>>
          /\ UNCHANGED anomalyFields
          /\ gpc' = IF triggerDraw'[1] > 2 THEN "now" ELSE "generate"
    /\ (gpc = "now" /\ gpc' = "start") => callRead'.now = now
    /\ (gpc = "start" /\ gpc' = "duration") =>
          anomalyStartTime' = callRead.now
    /\ (gpc = "duration" /\ gpc' = "hold") => anomalyDuration' = 4 * Minute
    /\ (gpc = "hold" /\ gpc' = "active") =>
          anomalyHoldDuration' = 3 * Minute
    /\ (gpc = "active" /\ gpc' # "active") => anomalyActive'
    /\ (gpc = "base" /\ gpc' = "generate") =>
          30 <= baseTemp' /\ baseTemp' <= 65
    /\ LeavesStartAnomaly =>
          /\ TriggeredThisCall
          /\ anomalyDuration' = 4 * Minute
          /\ anomalyHoldDuration' = 3 * Minute

\* The call that triggered the anomaly goes on to GenerateMetrics, where it
\* finds the anomaly active unless more than ramp plus hold has passed since
\* its start; its sample is computed from the time elapsed since the
\* trigger, with no idle temperature drawn unless that is more than ramp plus
\* hold, and is a base value when nothing has elapsed.
C26_FirstSample ==
    /\ (gpc = "generate" /\ gpc' # "generate" /\ TriggeredThisCall
            /\ ~PastRampAndHold)
          => gpc' = "since"
    /\ (SetsTemperature /\ TriggeredThisCall /\ sampleElapsed >= 0
            /\ sampleElapsed <= anomalyDuration + anomalyHoldDuration)
          => gpc # "idletemp" /\ drawn'.temp = <<>>
    /\ (SetsTemperature /\ TriggeredThisCall /\ sampleElapsed = 0) =>
          IF transport = "coap"
          THEN 30 <= callTemp'[1] /\ callTemp'[1] <= 65
          ELSE callTemp'[1] = config.BaseMCUTemp

\* C26: a tick that finds the device idle and draws z > 2.0 activates the
\* anomaly with start = now, a ramp of 4 minutes, a hold of 3 minutes and a
\* base from the configured range ([30, 65] in the CoAP client); a draw
\* z <= 2.0 leaves every anomaly field unchanged; and the sample of the
\* triggering tick is already a ramp value, the base at elapsed 0, not an
\* idle draw.
C26_Trigger == [][C26_TriggerStep /\ C26_FirstSample]_vars

\* The last store of a StartAnomaly, which follows its store of the flag
\* (part_002:99-100), in either of the calls on the MetricSender.
BaseStoreInEitherCall ==
    \/ gpc = "base" /\ gpc' = "generate"
    \/ otherPc = "base" /\ otherPc' = "generate"

\* While an anomaly is active, whatever step is taken: its start and its two
\* durations stay, the base moves only in the StartAnomaly that has just set
\* the flag, and the flag falls only by the store of GenerateMetrics, when
\* more than ramp plus hold has elapsed.
C29_ActiveStep ==
    anomalyActive =>
        /\ UNCHANGED <<anomalyStartTime, anomalyDuration, anomalyHoldDuration>>
        /\ UNCHANGED config
        /\ baseTemp' # baseTemp => BaseStoreInEitherCall
        /\ ~anomalyActive' => ClearStoreInEitherCall /\ PastRampAndHold

\* C29: while the anomaly is active, sampling ticks never restart or alter
\* the excursion: maybeTriggerAnomaly leaves anomalyStartTime,
\* anomalyDuration, anomalyHoldDuration, anomalyActive and baseTemp
\* unchanged, and GenerateMetrics changes none of them but anomalyActive,
\* which it sets to false, and only when the elapsed time exceeds ramp plus
\* hold.
C29_ActiveFrame == [][C29_ActiveStep]_vars

\* The positions of the call followed within StartAnomaly.
InStartAnomaly == {"now", "start", "duration", "hold", "active", "base"}

\* The call of GenerateMetrics that has read more than ramp plus hold as
\* elapsed, and no other, stores the flag; the device is then idle, more
\* than ramp plus hold after the start of the anomaly it held; and the call
\* goes on to a fresh idle sample: a temperature drawn and clamped to the
\* idle range.
C30_ReturnStep ==
    /\ (gpc = "total2" /\ gpc' # "total2") =>
          (gpc' = "clear" <=>
              sampleElapsed > anomalyDuration + anomalyHoldDuration)
    /\ (gpc = "clear" /\ gpc' # "clear") =>
          /\ gpc' = "idletemp"
          /\ ~anomalyActive'
          /\ PastRampAndHold
    /\ (gpc = "idletemp" /\ gpc' = "literal") =>
          /\ drawn'.temp # <<>>
          /\ callTemp'[1] =
                clamp(drawn'.temp[1], IdleTempRange[1], IdleTempRange[2])
          /\ InIdleRange(callTemp'[1])
    /\ (otherPc = "clear" /\ otherPc' # "clear") =>
          ~anomalyActive' /\ PastRampAndHold

\* An anomaly starts only by the store of StartAnomaly, which a call runs
\* before GenerateMetrics: the call that ended an anomaly does not start the
\* next.
C30_RetriggerStep ==
    /\ (~anomalyActive /\ anomalyActive') =>
          \/ gpc = "active" /\ gpc' # "active"
          \/ otherPc = "active" /\ otherPc' # "active"
    /\ gpc' \in InStartAnomaly => sampleElapsed' < 0

\* C30: an active anomaly returns to idle on the first tick whose elapsed
\* time exceeds ramp plus hold and on no earlier one, that tick outputs a
\* fresh idle sample, and the anomaly can be triggered again no earlier than
\* on the following tick.
C30_ReturnsToIdle == [][C30_ReturnStep /\ C30_RetriggerStep]_vars

(***************************************************************************)
(* Properties of the generator: reproducibility                            *)
(***************************************************************************)

\* The number of draws the device has made itself, within the period of the
\* stream.
ownPos == (rngPos + StreamPeriod * otherDraws - otherDraws) % StreamPeriod

\* The draws of a call are those the seeded stream holds at the device's own
\* position, that is, after the draws the call has made itself: the draw of
\* maybeTriggerAnomaly, and in GenerateMetrics the idle temperature, when one
\* is drawn, followed by the other fields, one draw each.
C24_SeededStep ==
    /\ (gpc = "draw" /\ gpc' # "draw") =>
          triggerDraw' = <<Stream(seed, ownPos)>>
    /\ (gpc = "idletemp" /\ gpc' = "literal") =>
          drawn'.temp = <<IdleTempDraw(Stream(seed, ownPos))>>
    /\ (gpc = "literal" /\ gpc' = "literal" /\ callDraws' # callDraws) =>
          callDraws' = Append(callDraws, Stream(seed, ownPos))
    /\ (gpc = "literal" /\ gpc' = "post") =>
          drawn'.fields = FieldDraws(Append(callDraws, Stream(seed, ownPos)))

\* C24: the generator is reproducible given a seeded random source: from the
\* same anomaly state, with the same seed and the same clock values, every
\* run makes the same draws, so that the samples and the state transitions
\* are the same; the draws of a device are determined by the seed and by the
\* calls the device has made.
C24_Reproducible == [][C24_SeededStep]_vars

(***************************************************************************)
(* Properties of the classification functions: bands and round trip        *)
(***************************************************************************)

\* The four pairs of severity and message of the temperature bands.
BandPairs ==
    {<<"INFO", "Temperature is fine">>,
     <<"WARNING", "Temperature rising - monitor closely">>,
     <<"CRITICAL", "Critical temperature - action needed">>,
     <<"EMERGENCY", "Emergency - device may fail">>}

\* C36: tempToSeverityString and tempToMessage always pick the same
\* temperature band: for every temperature the severity of the one and the
\* message of the other are one of the four pairs (INFO, fine), (WARNING,
\* rising), (CRITICAL, critical), (EMERGENCY, emergency), never the severity
\* of one band with the message of another.
C36_SameBand ==
    (sevOut # <<>> /\ msgOut # <<>>) => <<sevOut[1], msgOut[1]>> \in BandPairs

\* C36 witness: 84, the last temperature of the second band, has been given
\* WARNING and the message of that band, and the pairs of all four bands are
\* among those the two functions give.
C36_Witness ==
    /\ temp = 84
    /\ sevOut = <<"WARNING">>
    /\ msgOut = <<"Temperature rising - monitor closely">>
    /\ BandPairs =
          {<<tempToSeverityString(t), tempToMessage(t)>> : t \in TempRange}

\* C37: severity names round-trip through the log level: for each of the
\* eight severities s, the string replacer writes for mapSeverityToLevel(s)
\* is s again, so the severity shown in a record equals the catalog severity
\* of its event, and no catalog severity is rendered as DEFAULT.
C37_RoundTrip ==
    /\ shownOut # <<>> =>
          /\ sevIn \in SeverityNames => shownOut[1] = sevIn
          /\ NameSpelled(sevIn) # "" => shownOut[1] = NameSpelled(sevIn)
          /\ shownOut[1] # "DEFAULT"
    /\ \A s \in SeverityNames : replacer(mapSeverityToLevel(s)) = s
    /\ \A id \in DOMAIN eventDefinitions :
          /\ eventDefinitions[id].Severity \in SeverityNames
          /\ replacer(mapSeverityToLevel(eventDefinitions[id].Severity)) =
                eventDefinitions[id].Severity

\* C37 witness: NOTICE, whose level lies strictly between two levels of slog,
\* has been mapped to its level and written back as NOTICE, while a level
\* that is none of the eight would be written as DEFAULT.
C37_Witness ==
    /\ sevIn = "NOTICE"
    /\ levelOut = <<LevelNotice>>
    /\ shownOut = <<"NOTICE">>
    /\ replacer(LevelNotice + 1) = "DEFAULT"

(***************************************************************************)
(* Properties of the event generator's wait                                *)
(***************************************************************************)

\* C35: for every configured range with Min <= Max, Min = Max included, each
\* wait the event generator chooses lies within [Min, Max] and the generator
\* keeps running: it never aborts on computing its random interval.
C35_WaitWithinRange ==
    evConfig.Min <= evConfig.Max =>
        /\ evpc # "panic"
        /\ evWait # <<>> =>
              (evConfig.Min <= evWait[1] /\ evWait[1] <= evConfig.Max)

(***************************************************************************)
(* Properties of the metric cache: keys                                    *)
(***************************************************************************)

\* Every entry of the cache is stored under its own device id.
C33_OwnKey ==
    \A k \in DOMAIN globalMetricCache : globalMetricCache[k].DeviceID = k

\* The observations the callback makes for the entry of key k carry k as
\* their device_id label.
C33_ObserveStep ==
    \A k \in CacheKeys :
        (cpc = "iter" /\ k \notin cbVisited /\ k \in cbVisited') =>
            /\ Len(cbObs') > Len(cbObs)
            /\ \A i \in (Len(cbObs) + 1)..Len(cbObs') :
                  cbObs'[i].device_id = k

\* C33: in every reachable state of the server each entry of
\* globalMetricCache is stored under its own device id, cache[k].DeviceID = k
\* for every key k, the empty id of a submission without device_id included;
\* so the device_id label the export callback reports always equals the key
\* of the entry it came from.
C33_KeyedByOwnId == []C33_OwnKey /\ [][C33_ObserveStep]_vars

\* C33 witness: the cache holds an entry under the empty key next to one of
\* d1, and a run of the callback has reported the entry of the empty key
\* with the empty label.
C33_Witness ==
    /\ {"", "d1"} \subseteq DOMAIN globalMetricCache
    /\ globalMetricCache[""].DeviceID = ""
    /\ globalMetricCache["d1"].DeviceID = "d1"
    /\ "" \in cbVisited
    /\ \E i \in 1..Len(cbObs) :
          cbObs[i].device_id = "" /\ cbObs[i].value = Sample("", 2).TempC

(***************************************************************************)
(* Properties of the submission endpoints: one response per request        *)
(***************************************************************************)

\* Where the two handlers stand: no response is set while a request is being
\* processed, and a request that has been handled has its response.
C34_Answered ==
    /\ bpc = "loop" => bresp = "none"
    /\ bpc = "done" => bresp = BatchLogStatus(transport)
    /\ (bpc = "idle" /\ bRequests > 0) => bresp # "none"
    /\ hpc["h1"] # "idle" => hresp["h1"] = "none"
    /\ (hpc["h1"] = "idle" /\ requests > 0) => hresp["h1"] # "none"

\* A request that cannot be read or decoded gets the bad-request response
\* and its handler returns in the same step; a response once set stays until
\* the handler has returned; and the success response is set only when the
\* whole batch has been gone through, or the sample put and logged once.
C34_RespondStep ==
    /\ (bpc = "idle" /\ bRequests' # bRequests /\ bresp' # "none") =>
          (bresp' = BadRequestStatus(transport) /\ bpc' = "idle")
    /\ (bpc # "idle" /\ bresp # "none") => bresp' = bresp
    /\ (bpc # "idle" /\ bresp = "none" /\ bresp' # "none") =>
          /\ bresp' = BatchLogStatus(transport)
          /\ bi > Len(batch.Logs)
          /\ Len(bOut) + bSkipped = Len(batch.Logs)
    /\ (hpc["h1"] = "idle" /\ requests' # requests /\ hresp'["h1"] # "none") =>
          (hresp'["h1"] = BadRequestStatus(transport) /\ hpc'["h1"] = "idle")
    /\ (hpc["h1"] # "idle" /\ hresp'["h1"] # "none") =>
          /\ hresp'["h1"] = MetricStatus(transport)
          /\ hdone["h1"] = [puts |-> 1, logs |-> 1]
          /\ hpc'["h1"] = "idle"

\* C34: every request handled by a batch-log or metric handler gets exactly
\* one response on every path: a decode or body-read failure sets the
\* bad-request response and returns with no later success response, and a
\* decodable request sets the success response once, after all processing
\* (all entries of the batch, or the cache put and the log record) is done.
C34_OneResponse == []C34_Answered /\ [][C34_RespondStep]_vars

\* C34 witness: a metric submission has been refused and, after it, a batch
\* of two entries has been gone through and answered with the success
\* status.
C34_Witness ==
    /\ hpc["h1"] = "idle"
    /\ hresp["h1"] = BadRequestStatus(transport)
    /\ bpc = "done"
    /\ Len(batch.Logs) = 2
    /\ Len(bOut) + bSkipped = 2
    /\ bresp = BatchLogStatus(transport)

(***************************************************************************)
(* Properties of a batch from the client's cache to the server             *)
(***************************************************************************)

\* The client and the server catalogs have the same keys, with the same
\* severity and message.
SameCatalogs ==
    /\ DOMAIN clientEventDefinitions = DOMAIN eventDefinitions
    /\ \A k \in DOMAIN clientEventDefinitions :
          clientEventDefinitions[k] = eventDefinitions[k]

\* C32: a log entry produced by the client's event generator is never
\* skipped by the server: addEvent appends only ids that are keys of the
\* client's catalog, the client and server catalogs have the same keys with
\* the same severity and message, and each appended entry has exactly two
\* elements, so every submitted entry that reaches the batch-log handler
\* yields exactly one log record.
C32_NeverSkipped ==
    /\ SameCatalogs
    /\ bSkipped = 0
    /\ \A i \in 1..Len(batch.Logs) :
          /\ Len(batch.Logs[i]) = 2
          /\ batch.Logs[i][1] \in DOMAIN clientEventDefinitions
    /\ bpc \in {"loop", "done"} =>
          /\ Len(bOut) = bi - 1
          /\ \A i \in 1..Len(bOut) :
                /\ bOut[i].msg = clientEventDefinitions[batch.Logs[i][1]].Message
                /\ bOut[i].level = mapSeverityToLevel(
                       clientEventDefinitions[batch.Logs[i][1]].Severity)
                /\ bOut[i].device_id = batch.DeviceID
                /\ bOut[i].timestamp = FormatRFC3339(batch.Logs[i][2])
    /\ bpc = "done" => Len(bOut) = Len(batch.Logs)

\* C32 witness: a batch of two entries of the client, of ids 27 and 1, has
\* been gone through and has given two records, none skipped; the ids 0, 28
\* and 255 are among those addEvent refuses.
C32_Witness ==
    /\ bpc = "done"
    /\ Len(batch.Logs) = 2
    /\ batch.Logs[1][1] = 27
    /\ batch.Logs[2][1] = 1
    /\ Len(bOut) = 2
    /\ bSkipped = 0
    /\ bOut[1].msg = "Guasto alimentazione principale"
    /\ \A id \in {0, 28, 255} :
          id \in ClientEventIds /\ addEvent(<<>>, id, FirstEventTime) = <<>>

(***************************************************************************)
(* Properties of the generator: the range of the temperature               *)
(***************************************************************************)

\* The sample just generated was taken in the hold phase.
HoldSample ==
    /\ sampleElapsed > anomalyDuration
    /\ sampleElapsed <= anomalyDuration + anomalyHoldDuration

\* C31: in the CoAP client every generated temperature lies in [30, 100] in
\* every reachable anomaly state: during an excursion it is between a base
\* value in [30, 65] and 100, and outside one it is clamped to [30, 65]; so
\* the server's default branch for temperatures above 100 is never taken for
\* a sample of the client, and every sample of the hold phase, which is 100,
\* is classified EMERGENCY.
C31_TempWithinRange ==
    (JustGenerated /\ transport = "coap") =>
        LET t == generated[1].TempC
        IN  /\ 30 <= t /\ t <= 100
            /\ tempToSeverityString(t) \in
                  {"INFO", "WARNING", "CRITICAL", "EMERGENCY"}
            /\ drawn.temp # <<>> => t <= 65
            /\ (drawn.temp = <<>> /\ HoldSample) =>
                  (t = 100 /\ tempToSeverityString(t) = "EMERGENCY")
====
